---- MODULE Spec2Model ----
(***************************************************************************)
(* A model of lib/postgresMgr.js: the manager that supervises one          *)
(* PostgreSQL child process of a Manatee peer.                             *)
(*                                                                         *)
(* Every handler (public call, timer, event listener, I/O completion) is   *)
(* one action.  A handler and everything it calls synchronously is a       *)
(* function from a state record to a state record (the operators that      *)
(* take a parameter s); an action applies one such function to the current *)
(* state.  Asynchronous waits are positions of pc.                         *)
(***************************************************************************)
EXTENDS Integers, Sequences, FiniteSets, TLC

\* ------------------------------------------------------------------ bounds
MaxProcs    == 2   \* child process objects that exist at the same time
MaxTasks    == 2   \* _waitForStandby emitters that exist at the same time
MaxStops    == 2   \* _stop() ladders whose timers are still pending
OpsTimeout  == 1   \* opsTimeout, in start-up probe intervals (1000 ms)
ReplTimeout == 1   \* replicationTimeout, in poll periods (1000 ms)
MaxLatency  == 1   \* longest round trip of a status query, in poll periods
MaxLsnPart  == 1   \* largest value of either half of an LSN
MaxQueries  == 3   \* requests handed to _queryDb()
MaxClients  == 3   \* pg clients created
MaxSignals  == 6   \* signals _stop() sends to one child
HealthChkTimeout  == 2   \* healthChkTimeout, in units of time
HealthChkInterval == 1   \* healthChkInterval, in units of time
MaxChecks   == 3   \* health queries that have not returned

\* the poll period of _checkRepl: setTimeout(checkReplication, 1000)
PollPeriod  == 1

\* ------------------------------------------------------------------ values
Null  == "null"
NoErr == "none"
\* the peers a topology may name: one upstream, and two downstreams so that
\* the standby of a primary can change
Upstreams   == {"A"}
Downstreams == {"A", "B"}

NoTopology == [role |-> "unset", upstream |-> Null, downstream |-> Null]

Topologies ==
    [role : {"primary", "sync", "async", "none"},
     upstream : Upstreams \cup {Null}, downstream : Downstreams \cup {Null}]

\* the assertions of reconfigure() letting a standby name a downstream
validTopology_anyDownstream(onwm, t) ==
    /\ t.role \in {"primary", "sync", "async", "none"}
    /\ t.role = "primary" =>
          /\ t.upstream = Null
          /\ onwm => t.downstream = Null
    /\ t.role \in {"sync", "async"} => t.upstream # Null
    /\ t.role = "none" => t.upstream = Null /\ t.downstream = Null

\* the assertions at the head of reconfigure()
validTopology(onwm, t) ==
    /\ t.role \in {"primary", "sync", "async", "none"}
    /\ t.role = "primary" =>
          /\ t.upstream = Null
          /\ onwm => t.downstream = Null
    /\ t.role \in {"sync", "async"} =>
          /\ t.upstream # Null
          /\ t.downstream = Null
    /\ t.role = "none" => t.upstream = Null /\ t.downstream = Null

\* an LSN is <<hi, lo>>; anything else a row may carry is malformed
Lsns    == (0..MaxLsnPart) \X (0..MaxLsnPart)
NoLoc   == <<>>
BadLsn  == <<0>>

\* postgresql.conf as last written: _updateConf starts from the template,
\* so every key that is not given falls back to the template ("tmpl")
NoConf == [ro |-> "unset", ssn |-> "unset", sc |-> "unset"]
Conf(ro, ssn, sc) == [ro |-> ro, ssn |-> ssn, sc |-> sc]

FreeProc == [alive |-> FALSE, lst |-> "none", called |-> FALSE,
             ival |-> FALSE, ticks |-> 0, probes |-> 0,
             ok |-> FALSE, sig |-> FALSE]
FreeTask == [st |-> "free", stdby |-> Null, cancel |-> FALSE, loc |-> NoLoc,
             elapsed |-> 0, cause |-> "-", old |-> FALSE, waited |-> FALSE]
NoResp   == [op |-> "-", res |-> "-", at |-> "-", call |-> "-"]
NoHist   == [on |-> FALSE, cancelled |-> FALSE, incr |-> FALSE,
             stall |-> FALSE, reached |-> FALSE, last |-> NoLoc,
             first |-> NoLoc, since |-> 0, lastD |-> 0, polls |-> 0,
             qerr |-> FALSE, bad |-> FALSE, fail |-> FALSE, dones |-> 0,
             errs |-> 0,
             obeys |-> "-", sigs |-> <<>>, t |-> 0]

\* the health check after 'init': its interval is set; no close() has begun
\* with _healthy, _lastHealthChkErr, the time since _lastHealthChkTime, the
\* time since the interval last fired, the health queries that have not
\* returned (age, whether the timeout of their tick is pending or has
\* fired), the event and the kind of the last step of the loop, and
\* whether the query that returned last had outlived its timeout
HealthChk0 == [ival |-> TRUE, closing |-> FALSE, imm |-> FALSE,
               closed |-> FALSE,
               healthy |-> "null", lastErr |-> "-", since |-> 0, next |-> 0,
               checks |-> <<>>, ev |-> "-", last |-> "-", late |-> FALSE]

\* a request of the query serializer: the client it was dispatched on,
\* whether its query can still emit events, whether a row has come, how its
\* callback has been called, and its query string
NoRq == [on |-> 0, active |-> FALSE, row |-> FALSE, cbs |-> 0, res |-> "-",
         str |-> "-"]
NoEv == [kind |-> "-", rq |-> 0, client |-> 0, next |-> 0]

\* the serializer after construction, with the history of its events
NoPg == [queued |-> <<>>, outstanding |-> 0, client |-> 0, made |-> 0,
         listen |-> {}, errored |-> {}, n |-> 0,
         rqs |-> [r \in 1..MaxQueries |-> NoRq],
         disp |-> <<>>, order |-> <<>>, clean |-> TRUE, re |-> FALSE,
         ev |-> NoEv, crashed |-> FALSE, blocked |-> FALSE]

\* ------------------------------------------------------------------ state
VARIABLES
    oneNodeWriteMode,  \* self._oneNodeWriteMode
    pgConfig,          \* self._pgConfig
    appliedPgConfig,   \* self._appliedPgConfig
    running,           \* self._running
    transitioning,     \* self._transitioning
    postgres,          \* self._postgres: 0 (null) or a child process
    procs,             \* the child process objects
    stops,             \* the _stop() ladders in progress
    transitionFunc,    \* self._transitionFunc: 0 (null) or a task
    tasks,             \* the _waitForStandby emitters
    pgConf,            \* the postgresql.conf in the data directory
    pc,                \* where the accepted call's pipeline is waiting
    caller,            \* who _restart returns to
    req,               \* the pgConfig argument of _reconfigure
    isRestore,         \* whether _.isRestore of _standby holds an error
    pendErr,           \* the error a rollback will hand on
    op,                \* the public call in progress
    expectNoop,        \* the call in progress repeats the applied topology
    resp,              \* the callback or event of the last step
    did,               \* the work the last step has done
    crashed,           \* an exception escaped to the event loop
    hist,              \* the status source and the child as observed
    pg,                \* the query serializer: _pgClient, _pgRequest*
    healthChk          \* _healthChkIntervalId and the pipelines of close()

vars == <<oneNodeWriteMode, pgConfig, appliedPgConfig, running, transitioning,
          postgres, procs, stops, transitionFunc, tasks, pgConf, pc, caller,
          req, isRestore, pendErr, op, expectNoop, resp, did, crashed,
          hist, pg, healthChk>>

\* the current state as a record; rvOk is what resolveVersionedPaths() will
\* do if the handler calls it, blocked is set when a bound is hit
Cur(rv) ==
    [oneNodeWriteMode |-> oneNodeWriteMode, pgConfig |-> pgConfig,
     appliedPgConfig |-> appliedPgConfig, running |-> running,
     transitioning |-> transitioning, postgres |-> postgres, procs |-> procs,
     stops |-> stops, transitionFunc |-> transitionFunc,
     tasks |-> IF pc = "idle"
               THEN [t \in 1..MaxTasks |->
                        [tasks[t] EXCEPT !.old = (tasks[t].st # "free")]]
               ELSE tasks,
     pgConf |-> pgConf, pc |-> pc, caller |-> caller, req |-> req,
     isRestore |-> isRestore, pendErr |-> pendErr, op |-> op,
     expectNoop |-> IF pc = "idle" THEN FALSE ELSE expectNoop,
     resp |-> NoResp,
     did |-> {},
     crashed |-> crashed, hist |-> hist, healthChk |-> healthChk,
     rvOk |-> rv, blocked |-> FALSE]

\* a child object nothing refers to any more is forgotten
procUsed(s, p) ==
    \/ s.procs[p].alive
    \/ s.postgres = p
    \/ s.procs[p].ival
    \/ s.procs[p].probes > 0
    \/ \E i \in 1..Len(s.stops) : s.stops[i].pid = p \/ s.stops[i].ret.p = p

\* a _stop() whose timers and callback can change nothing any more: its
\* listener is gone and the _start() it would call back has been answered
staleStop(s, x) ==
    /\ ~x.listening
    /\ x.ret.k = "start"
    /\ s.procs[x.ret.p].called
    /\ s.procs[x.pid].lst = "none"

\* forgets what can change nothing any more and numbers the child objects
\* in the order of their creation
collect(s) ==
    LET keep(x) == ~staleStop(s, x)
        s1 == [s EXCEPT !.stops = SelectSeq(@, keep)]
        used == {p \in 1..MaxProcs : procUsed(s1, p)}
        rank(p) == Cardinality({q \in used : q <= p})
        at(i) == CHOOSE p \in used : rank(p) = i
        tidy(x) == IF ~x.ival /\ x.probes = 0 THEN [x EXCEPT !.ticks = 0]
                   ELSE x
    IN [s1 EXCEPT
          !.procs = [i \in 1..MaxProcs |->
                        IF i <= Cardinality(used) THEN tidy(s1.procs[at(i)])
                        ELSE FreeProc],
          !.postgres = IF @ = 0 THEN 0 ELSE rank(@),
          !.stops = [i \in 1..Len(s1.stops) |->
                        [s1.stops[i] EXCEPT
                            !.pid = rank(@),
                            !.ret.p = IF @ = 0 THEN 0 ELSE rank(@)]]]

Apply(s) ==
    /\ ~s.blocked
    /\ oneNodeWriteMode' = s.oneNodeWriteMode
    /\ pgConfig' = s.pgConfig
    /\ appliedPgConfig' = s.appliedPgConfig
    /\ running' = s.running
    /\ transitioning' = s.transitioning
    /\ LET c == collect(s)
       IN postgres' = c.postgres /\ procs' = c.procs /\ stops' = c.stops
    /\ transitionFunc' = s.transitionFunc
    /\ tasks' = s.tasks
    /\ pgConf' = s.pgConf
    /\ pc' = s.pc
    /\ caller' = s.caller
    /\ req' = s.req
    /\ isRestore' = s.isRestore
    /\ pendErr' = s.pendErr
    /\ op' = s.op
    /\ expectNoop' = s.expectNoop
    /\ resp' = s.resp
    /\ did' = s.did
    /\ crashed' = s.crashed
    /\ hist' = s.hist
    /\ pg' = pg
    /\ healthChk' = s.healthChk

Log(s, e) == [s EXCEPT !.did = @ \cup {e}]
Block(s)  == [s EXCEPT !.blocked = TRUE]

\* ------------------------------------------------- the public callbacks
Resp(o, r, a) == [op |-> o, res |-> r, at |-> a, call |-> "-"]
Res(err) == IF err = NoErr THEN "ok" ELSE err

Idle(s) ==
    [s EXCEPT !.pc = "idle", !.op = "-", !.caller = "-", !.req = NoTopology,
              !.isRestore = FALSE, !.pendErr = NoErr]

\* start(): the callback given to _reconfigure
startCb(s, err) ==
    Idle([s EXCEPT !.running = IF err = NoErr THEN TRUE ELSE @,
                   !.transitioning = FALSE,
                   !.resp = Resp("start", Res(err), "done")])

\* _stopHealthCheck: the interval is cleared, the callback is deferred; a
\* manager closed this far is not used again
_stopHealthCheck(s) ==
    [s EXCEPT !.healthChk.ival = FALSE, !.healthChk.imm = TRUE,
              !.healthChk.closed = TRUE]

\* the callback close() gives stop(), when stop() has just called it: an
\* error ends close()'s pipeline, success leads on to _stopHealthCheck
closeCb(s) ==
    IF ~s.healthChk.closing \/ s.resp.op # "stop" THEN s
    ELSE IF s.resp.res = "ok"
    THEN _stopHealthCheck([s EXCEPT !.healthChk.closing = FALSE,
                                    !.resp = NoResp])
    ELSE [s EXCEPT !.healthChk.closing = FALSE, !.resp.op = "close"]

\* stop(): _setNotRunning and the pipeline's callback
stopCb(s, err) ==
    closeCb(Idle([s EXCEPT !.running = IF err = NoErr THEN FALSE ELSE @,
                           !.transitioning = FALSE,
                           !.resp = Resp("stop", Res(err), "done")]))

\* reconfigure(): the callback given to _reconfigure
reconfigureCb(s, err) ==
    Idle([s EXCEPT !.transitioning = FALSE,
                   !.resp = Resp("reconfigure", Res(err), "done")])

callback(s, err) ==
    CASE s.op = "start" -> startCb(s, err)
      [] s.op = "stop" -> stopCb(s, err)
      [] OTHER -> reconfigureCb(s, err)

\* _reconfigure.onReconfigure
onReconfigure(s, err) ==
    IF err = NoErr
    THEN callback([s EXCEPT !.pgConfig = s.req, !.appliedPgConfig = TRUE], err)
    ELSE callback(s, err)

\* ------------------------------------------------- the catch-up task
freeTasks(s) == {t \in 1..MaxTasks : s.tasks[t].st = "free"}

\* _waitForStandby: a new emitter whose first stage has called _checkRepl,
\* which has issued the first status query
_waitForStandby(s, stdby) ==
    IF freeTasks(s) = {} THEN Block(s)
    ELSE LET t == CHOOSE x \in freeTasks(s) : \A y \in freeTasks(s) : x <= y
         IN [s EXCEPT !.tasks[t] = [FreeTask EXCEPT !.st = "query",
                                                    !.stdby = stdby],
                      !.transitionFunc = t]

\* _primary._startReplCheck and _updateStandby._startReplCheck
_startReplCheck(s, stdby) ==
    IF stdby = Null THEN s ELSE Log(_waitForStandby(s, stdby), "task")

\* the callback of the _primary and _updateStandby pipelines
primaryDone(s, err) == onReconfigure(s, err)

\* ------------------------------------------------- _standby, from its end
standbyDone(s, err) == onReconfigure(s, err)

\* _standby._destroyBackupDatset without the test of _.isRestore
_destroyBackupDatset_always(s) ==
    Log([s EXCEPT !.pc = "s.destroy"], "destroy")

\* _standby._destroyBackupDatset
_destroyBackupDatset(s) ==
    IF ~s.isRestore THEN standbyDone(s, NoErr)
    ELSE Log([s EXCEPT !.pc = "s.destroy"], "destroy")

\* the error handed on at once, without restoreDataset
rollback_skipped(s, err, at) == standbyDone(s, err)

\* the rollback of _restore and of _restartAgain: restoreDataset, then cb(err)
rollback(s, err, at) ==
    Log([s EXCEPT !.pc = at, !.pendErr = err], "rollback")

\* _standby._restore, _updateConfigsAgain, _restartAgain, _destroyBackupDatset
\* when no restore is needed; otherwise the zfs restore is begun
_restore(s) ==
    IF ~s.isRestore THEN _destroyBackupDatset(s)
    ELSE Log([s EXCEPT !.pc = "s.restore"], "restore")

\* the callback _restart was given
afterRestart(s, err) ==
    CASE s.caller = "p" ->
           IF err # NoErr THEN primaryDone(s, err)
           ELSE Log([s EXCEPT !.pc = "p.snapshot"], "snapshot")
      [] s.caller = "s1" -> _restore([s EXCEPT !.isRestore = (err # NoErr)])
      [] s.caller = "s2" ->
           IF err # NoErr THEN rollback(s, err, "s.rollback2")
           ELSE _destroyBackupDatset(s)
      [] OTHER -> callback(s, err)

\* ------------------------------------------------- _start and _stop
freeProcs(s) == {p \in 1..MaxProcs : ~procUsed(s, p)}

\* _start's once(callback): clears the probe interval and calls _restart's
\* callback; a second call does nothing
startCallback(s, p, err) ==
    IF s.procs[p].called THEN s
    ELSE afterRestart([s EXCEPT !.procs[p].called = TRUE,
                                !.procs[p].ok = (err = NoErr),
                                !.procs[p].ival = FALSE], err)

\* _start: spawn the child, keep its handle, listen for its exit and
\* begin to probe every second
_start(s) ==
    IF ~s.rvOk THEN afterRestart(s, "resolveVersionedPaths")
    ELSE IF freeProcs(s) = {} THEN Block(s)
    ELSE LET p == CHOOSE x \in freeProcs(s) : \A y \in freeProcs(s) : x <= y
         IN Log([s EXCEPT !.procs[p] = [FreeProc EXCEPT !.alive = TRUE,
                                                        !.lst = "start",
                                                        !.ival = TRUE],
                          !.postgres = p,
                          !.pc = "restart.start"], "spawn")

\* the callback a _stop() was given: a pipeline position, or (k = "start")
\* the _start of child p whose probes timed out
Ret(k, p) == [k |-> k, p |-> p]

afterStop(s, ret, err) ==
    CASE ret.k = "stop" -> stopCb(s, err)
      [] ret.k = "p.initDb" ->
           IF err # NoErr THEN primaryDone(s, err)
           ELSE [s EXCEPT !.pc = "p.assertDataset"]
      [] ret.k = "s.stop" ->
           IF err # NoErr THEN standbyDone(s, err)
           ELSE [s EXCEPT !.pc = "s.assertDataset"]
      [] ret.k = "restart" ->
           IF err # NoErr THEN afterRestart(s, err) ELSE _start(s)
      [] OTHER -> startCallback(s, ret.p, "start timeout")

\* the signals _stop() sends and the waits it can leave a pipeline in
Signals == {"SIGINT", "SIGQUIT", "SIGKILL"}
StopWaits == {"stop.stop", "restart.stop", "p.initDb.stop", "s.stop"}

\* removeAllListeners('exit') on child p
unlisten(s, p) ==
    [s EXCEPT !.procs[p].lst = "none",
              !.stops = [i \in 1..Len(s.stops) |->
                           IF s.stops[i].pid = p
                           THEN [s.stops[i] EXCEPT !.listening = FALSE]
                           ELSE s.stops[i]]]

\* _stop failing when there is no handle
_stop_failsWithoutHandle(s, ret) ==
    afterStop(Log(s, "noHandle"), ret, "SIGKILL failed")

\* _stop: nothing to do without a handle; otherwise replace the exit
\* listeners of the child by its own, send SIGINT and arm the first timer
_stop(s, ret) ==
    IF s.postgres = 0 THEN afterStop(Log(s, "noHandle"), ret, NoErr)
    ELSE IF Len(s.stops) >= MaxStops THEN Block(s)
    ELSE LET p  == s.postgres
             s1 == unlisten(s, p)
             w  == CASE ret.k = "start" -> s.pc
                     [] ret.k = "restart" -> "restart.stop"
                     [] ret.k = "stop" -> "stop.stop"
                     [] ret.k = "p.initDb" -> "p.initDb.stop"
                     [] OTHER -> "s.stop"
         IN Log([s1 EXCEPT !.procs[p].lst = "stop",
                           !.procs[p].sig = TRUE,
                           !.stops = Append(@, [pid |-> p, stage |-> "SIGINT",
                                                ret |-> ret,
                                                listening |-> TRUE]),
                           !.pc = w], "SIGINT")

\* _restart: probe first
_restart(s, who) == [s EXCEPT !.pc = "restart.health", !.caller = who]

\* the callback of _restart's probe
restartHealth(s, err) ==
    IF err # NoErr THEN _start(s) ELSE _stop(s, Ret("restart", 0))

\* ------------------------------------------------- the pipelines' stages
Tunable == "tunable"   \* synchronous_commit as getTunables() gives it

\* _updatePgConf completed: the file is the template with these keys set
wrote(s, c) == Log([s EXCEPT !.pgConf = c], "conf")

\* _sighup: postgres.kill('SIGHUP') on the handle; a null handle throws
_sighup(s) ==
    IF s.postgres = 0 THEN [s EXCEPT !.crashed = TRUE] ELSE s

\* _primary: _initDb.assertDataset .. _initDb.setDataDirPerms, and the
\* resolveVersionedPaths() at the head of _initDb._initDb
primary_step(s, ok, next) ==
    IF ~ok THEN primaryDone(s, s.pc)
    ELSE IF next = "p.initdb" /\ ~s.rvOk
    THEN primaryDone(s, "resolveVersionedPaths")
    ELSE [s EXCEPT !.pc = next]

\* _primary._updateConfigs completed, then _restart
primary_updateConfigs(s, ok) ==
    IF ~ok THEN primaryDone(s, "p.conf")
    ELSE _restart(wrote(s, Conf(IF s.oneNodeWriteMode THEN "tmpl" ELSE "on",
                                "tmpl", Tunable)), "p")

\* _primary._snapshot starting the task although the snapshot has failed
primary_snapshot_taskOnFailure(s, ok) ==
    IF ~ok THEN primaryDone(_startReplCheck(s, s.req.downstream), "p.snapshot")
    ELSE primaryDone(_startReplCheck(s, s.req.downstream), NoErr)

\* _primary._snapshot completed, then _startReplCheck and the callback
primary_snapshot(s, ok) ==
    IF ~ok THEN primaryDone(s, "p.snapshot")
    ELSE primaryDone(_startReplCheck(s, s.req.downstream), NoErr)

\* _updateStandby._updateConfigs completed, then _sighup, _startReplCheck
\* and the callback
updateStandby_updateConfigs(s, ok) ==
    IF ~ok THEN primaryDone(s, "us.conf")
    ELSE LET stdby == s.req.downstream
             c  == IF stdby # Null THEN Conf("on", stdby, Tunable)
                   ELSE IF ~s.oneNodeWriteMode THEN Conf("on", "tmpl", Tunable)
                   ELSE Conf("tmpl", "tmpl", Tunable)
             s1 == _sighup(wrote(s, c))
         IN IF s1.crashed THEN s1
            ELSE primaryDone(_startReplCheck(Log(s1, "sighup"), stdby), NoErr)

\* _standby._restart
standby_restart(s) ==
    IF s.isRestore THEN _restore(s) ELSE _restart(s, "s1")

\* _standby._updateConfigs: updateConfigurations() in its three steps
\* (resolveVersionedPaths, recovery.conf, postgresql.conf); an error only
\* sets _.isRestore
standby_updateConfigs(s, ok) ==
    CASE ~ok -> standby_restart([s EXCEPT !.isRestore = TRUE])
      [] s.pc = "s.assertDataset" ->
           IF s.rvOk THEN [s EXCEPT !.pc = "s.conf1r"]
           ELSE standby_restart([s EXCEPT !.isRestore = TRUE])
      [] s.pc = "s.conf1r" -> Log([s EXCEPT !.pc = "s.conf1p"], "recoveryConf")
      [] OTHER -> standby_restart(wrote(s, Conf("tmpl", "tmpl", "off")))

\* _standby._restore: restore() and its callback
standby_restore(s, ok) ==
    IF ~ok THEN rollback(s, s.pc, "s.rollback1")
    ELSE IF s.pc = "s.restore" THEN [s EXCEPT !.pc = "s.chown"]
    ELSE IF s.rvOk THEN [s EXCEPT !.pc = "s.conf2r"]
    ELSE standbyDone(s, "resolveVersionedPaths")

\* _standby._updateConfigsAgain rolling back when the configuration cannot
\* be written
standby_updateConfigsAgain_rollsBack(s, ok) ==
    IF ~ok THEN rollback(s, s.pc, "s.rollback2")
    ELSE IF s.pc = "s.conf2r"
    THEN Log([s EXCEPT !.pc = "s.conf2p"], "recoveryConf")
    ELSE _restart(wrote(s, Conf("tmpl", "tmpl", "off")), "s2")

\* _standby._updateConfigsAgain, then _restartAgain
standby_updateConfigsAgain(s, ok) ==
    IF ~ok THEN standbyDone(s, s.pc)
    ELSE IF s.pc = "s.conf2r"
    THEN Log([s EXCEPT !.pc = "s.conf2p"], "recoveryConf")
    ELSE _restart(wrote(s, Conf("tmpl", "tmpl", "off")), "s2")

\* the completion of whatever the pipeline is waiting for outside the
\* manager: the zfs client, the snapshotter, exec, fs, the conf parser
ioDone(s, ok) ==
    CASE s.pc = "p.assertDataset" -> primary_step(s, ok, "p.stat")
      [] s.pc = "p.stat" -> primary_step(s, ok, "p.chown")
      [] s.pc = "p.chown" -> primary_step(s, ok, "p.chmod")
      [] s.pc = "p.chmod" -> primary_step(s, ok, "p.initdb")
      [] s.pc = "p.initdb" ->
           Log([s EXCEPT !.pc = "p.unlink",
                         !.pgConf = Conf("tmpl", "tmpl", "tmpl")], "initdb")
      [] s.pc = "p.unlink" -> primary_step(s, ok, "p.conf")
      [] s.pc = "p.conf" -> primary_updateConfigs(s, ok)
      [] s.pc = "p.snapshot" -> primary_snapshot(s, ok)
      [] s.pc = "us.conf" -> updateStandby_updateConfigs(s, ok)
      [] s.pc = "s.assertDataset" ->
           IF ok THEN standby_updateConfigs(s, ok)
           ELSE standbyDone(s, "s.assertDataset")
      [] s.pc \in {"s.conf1r", "s.conf1p"} -> standby_updateConfigs(s, ok)
      [] s.pc \in {"s.restore", "s.chown"} -> standby_restore(s, ok)
      [] s.pc \in {"s.conf2r", "s.conf2p"} -> standby_updateConfigsAgain(s, ok)
      [] s.pc \in {"s.rollback1", "s.rollback2"} ->
           standbyDone(Log(IF ok THEN s ELSE Log(s, "rollbackFailed"),
                           "rolledBack"), s.pendErr)
      [] OTHER -> standbyDone(s, IF ok THEN NoErr ELSE "s.destroy")

IoWaits ==
    {"p.assertDataset", "p.stat", "p.chown", "p.chmod", "p.initdb",
     "p.unlink", "p.conf", "p.snapshot", "us.conf", "s.assertDataset",
     "s.conf1r", "s.conf1p", "s.restore", "s.chown", "s.conf2r", "s.conf2p",
     "s.rollback1", "s.rollback2", "s.destroy"}

\* ------------------------------------------------- the catch-up monitor
\* what a status query can come back with
Row(k, sent, flush) == [k |-> k, sent |-> sent, flush |-> flush]
QueryErr == Row("err", NoLoc, NoLoc)
NoRow    == Row("none", NoLoc, NoLoc)

\* pg-lsn: a well-formed LSN, and the order of two of them
xlogValidate(l) == l \in Lsns
xlogCompare(a, b) ==
    IF a[1] # b[1] THEN (IF a[1] < b[1] THEN -1 ELSE 1)
    ELSE IF a[2] # b[2] THEN (IF a[2] < b[2] THEN -1 ELSE 1)
    ELSE 0

\* _checkReplStatus: what it hands to its callback (err, _stop, replayLoc)
_checkReplStatus(row) ==
    IF row.k = "err"
    THEN [err |-> "unable to query replication stat", stop |-> FALSE,
          replayLoc |-> NoLoc]
    ELSE IF row.k = "none"
    THEN [err |-> "no replication status", stop |-> FALSE, replayLoc |-> NoLoc]
    ELSE IF ~xlogValidate(row.sent) \/ ~xlogValidate(row.flush)
    THEN [err |-> "failed to validate LSNs", stop |-> FALSE,
          replayLoc |-> NoLoc]
    ELSE [err |-> NoErr, stop |-> (xlogCompare(row.sent, row.flush) = 0),
          replayLoc |-> row.flush]

\* the pipeline waiting in _cancelTransitioning goes on
afterCancel(s, err) ==
    IF err # NoErr THEN onReconfigure(s, err)
    ELSE CASE s.pc = "p.cancelWait" -> _stop(s, Ret("p.initDb", 0))
           [] s.pc = "us.cancelWait" -> [s EXCEPT !.pc = "us.conf"]
           [] OTHER -> _stop(s, Ret("s.stop", 0))

\* replEmitter.emit('done', err): the listener _startReplCheck registered
\* clears self._transitionFunc, then the one _cancelTransitioning registered
\* continues its pipeline
taskDone(s, t, err) ==
    LET s1 == [s EXCEPT !.tasks[t] = FreeTask, !.transitionFunc = 0]
    IN IF s.tasks[t].waited THEN afterCancel(s1, err) ELSE s1

\* checkReplEmitter.emit('done'): _waitForStandby._checkReplStatus listens
\* once and goes on to _enableWrites, which begins to write the conf
checkReplDone(s, t, why) ==
    IF s.tasks[t].st \in {"query", "timer"}
    THEN [s EXCEPT !.tasks[t].st = "conf", !.tasks[t].cause = why]
    ELSE s

\* checkReplEmitter.cancel
checkReplCancel(s, t) ==
    checkReplDone([s EXCEPT !.tasks[t].cancel = TRUE], t, "cancel")

\* checkReplication comparing the replay locations the wrong way round
checkReplication_lostProgress(s, t, row, d) ==
    LET k == s.tasks[t]
        r == _checkReplStatus(row)
        adv == k.loc = NoLoc \/ xlogCompare(r.replayLoc, k.loc) < 0
        loc == IF adv THEN r.replayLoc ELSE k.loc
        diffTime == IF adv THEN 0 ELSE k.elapsed + d
    IN IF k.cancel THEN s
       ELSE IF r.err # NoErr
       THEN [s EXCEPT !.tasks[t].elapsed = 0, !.tasks[t].st = "timer"]
       ELSE IF r.stop
       THEN checkReplDone([s EXCEPT !.tasks[t].loc = loc,
                                    !.tasks[t].elapsed = diffTime],
                          t, "caughtup")
       ELSE IF diffTime > ReplTimeout
       THEN taskDone(s, t, "standby unable to make forward progress")
       ELSE [s EXCEPT !.tasks[t].loc = loc, !.tasks[t].elapsed = diffTime,
                      !.tasks[t].st = "timer"]

\* checkReplication without the test of the replication timeout
checkReplication_noTimeout(s, t, row, d) ==
    LET k == s.tasks[t]
        r == _checkReplStatus(row)
        adv == k.loc = NoLoc \/ xlogCompare(r.replayLoc, k.loc) > 0
        loc == IF adv THEN r.replayLoc ELSE k.loc
        diffTime == IF adv THEN 0 ELSE k.elapsed + d
    IN IF k.cancel THEN s
       ELSE IF r.err # NoErr
       THEN [s EXCEPT !.tasks[t].elapsed = 0, !.tasks[t].st = "timer"]
       ELSE IF r.stop
       THEN checkReplDone([s EXCEPT !.tasks[t].loc = loc,
                                    !.tasks[t].elapsed = diffTime],
                          t, "caughtup")
       ELSE [s EXCEPT !.tasks[t].loc = loc, !.tasks[t].elapsed = diffTime,
                      !.tasks[t].st = "timer"]

\* checkReplication giving up when the timeout is reached, not exceeded
checkReplication_earlyTimeout(s, t, row, d) ==
    LET k == s.tasks[t]
        r == _checkReplStatus(row)
        adv == k.loc = NoLoc \/ xlogCompare(r.replayLoc, k.loc) > 0
        loc == IF adv THEN r.replayLoc ELSE k.loc
        diffTime == IF adv THEN 0 ELSE k.elapsed + d
    IN IF k.cancel THEN s
       ELSE IF r.err # NoErr
       THEN [s EXCEPT !.tasks[t].elapsed = 0, !.tasks[t].st = "timer"]
       ELSE IF r.stop
       THEN checkReplDone([s EXCEPT !.tasks[t].loc = loc,
                                    !.tasks[t].elapsed = diffTime],
                          t, "caughtup")
       ELSE IF diffTime >= ReplTimeout
       THEN taskDone(s, t, "standby unable to make forward progress")
       ELSE [s EXCEPT !.tasks[t].loc = loc, !.tasks[t].elapsed = diffTime,
                      !.tasks[t].st = "timer"]

\* checkReplication giving up at a failed answer
checkReplication_errEnds(s, t, row, d) ==
    LET k == s.tasks[t]
        r == _checkReplStatus(row)
        adv == k.loc = NoLoc \/ xlogCompare(r.replayLoc, k.loc) > 0
        loc == IF adv THEN r.replayLoc ELSE k.loc
        diffTime == IF adv THEN 0 ELSE k.elapsed + d
    IN IF k.cancel THEN s
       ELSE IF r.err # NoErr
       THEN taskDone(s, t, r.err)
       ELSE IF r.stop
       THEN checkReplDone([s EXCEPT !.tasks[t].loc = loc,
                                    !.tasks[t].elapsed = diffTime],
                          t, "caughtup")
       ELSE IF diffTime > ReplTimeout
       THEN taskDone(s, t, "standby unable to make forward progress")
       ELSE [s EXCEPT !.tasks[t].loc = loc, !.tasks[t].elapsed = diffTime,
                      !.tasks[t].st = "timer"]

\* checkReplication counting a failed answer against the timeout
checkReplication_errCounts(s, t, row, d) ==
    LET k == s.tasks[t]
        r == _checkReplStatus(row)
        adv == k.loc = NoLoc \/ xlogCompare(r.replayLoc, k.loc) > 0
        loc == IF adv THEN r.replayLoc ELSE k.loc
        diffTime == IF adv THEN 0 ELSE k.elapsed + d
    IN IF k.cancel THEN s
       ELSE IF r.err # NoErr
       THEN [s EXCEPT !.tasks[t].st = "timer"]
       ELSE IF r.stop
       THEN checkReplDone([s EXCEPT !.tasks[t].loc = loc,
                                    !.tasks[t].elapsed = diffTime],
                          t, "caughtup")
       ELSE IF diffTime > ReplTimeout
       THEN taskDone(s, t, "standby unable to make forward progress")
       ELSE [s EXCEPT !.tasks[t].loc = loc, !.tasks[t].elapsed = diffTime,
                      !.tasks[t].st = "timer"]

\* the callback _checkRepl gives _checkReplStatus; d is the time since the
\* callback before it
checkReplication(s, t, row, d) ==
    LET k == s.tasks[t]
        r == _checkReplStatus(row)
        adv == k.loc = NoLoc \/ xlogCompare(r.replayLoc, k.loc) > 0
        loc == IF adv THEN r.replayLoc ELSE k.loc
        diffTime == IF adv THEN 0 ELSE k.elapsed + d
    IN IF k.cancel THEN s
       ELSE IF r.err # NoErr
       THEN [s EXCEPT !.tasks[t].elapsed = 0, !.tasks[t].st = "timer"]
       ELSE IF r.stop
       THEN checkReplDone([s EXCEPT !.tasks[t].loc = loc,
                                    !.tasks[t].elapsed = diffTime],
                          t, "caughtup")
       ELSE IF diffTime > ReplTimeout
       THEN taskDone(s, t, "standby unable to make forward progress")
       ELSE [s EXCEPT !.tasks[t].loc = loc, !.tasks[t].elapsed = diffTime,
                      !.tasks[t].st = "timer"]

\* _waitForStandby._enableWrites completed, then _sighup and the emitter's
\* 'done'
waitForStandby_enableWrites(s, t, ok) ==
    IF ~ok THEN taskDone(s, t, "enableWrites")
    ELSE LET s1 == _sighup([s EXCEPT !.pgConf =
                                Conf("tmpl", s.tasks[t].stdby, Tunable)])
         IN IF s1.crashed THEN s1 ELSE taskDone(s1, t, NoErr)

\* ------------------------------------------------- the child process
RemoveAt(q, i) == [j \in 1..(Len(q) - 1) |-> IF j < i THEN q[j] ELSE q[j + 1]]

\* the 'exit' listener of _start emitting 'error' whether or not _start has
\* called back
procExit_alwaysFatal(s, p) ==
    LET s0 == [s EXCEPT !.procs[p].alive = FALSE,
                        !.did = @ \cup {"exit"}
                                  \cup (IF s.procs[p].ok THEN {"startedOk"}
                                        ELSE {})
                                  \cup (IF s.procs[p].sig THEN {"signalled"}
                                        ELSE {})]
    IN CASE s.procs[p].lst = "start" ->
              startCallback(
                  [s0 EXCEPT !.postgres = 0,
                             !.resp = Resp("-", "fatal", "event")],
                  p, "postgres exited unexpectedly")
         [] s.procs[p].lst = "stop" ->
              LET i == CHOOSE j \in 1..Len(s.stops) :
                          s.stops[j].pid = p /\ s.stops[j].listening
              IN afterStop([s0 EXCEPT !.postgres = 0,
                                      !.procs[p].lst = "none",
                                      !.stops = RemoveAt(s.stops, i)],
                           s.stops[i].ret, NoErr)
         [] OTHER -> s0

\* the child's 'exit' event, handled by whichever listener is registered:
\* _start's (always clears the handle; after _start has called back it
\* emits 'error'), or the one a _stop() registered; what is known of the
\* child that exits is noted
procExit(s, p) ==
    LET s0 == [s EXCEPT !.procs[p].alive = FALSE,
                        !.did = @ \cup {"exit"}
                                  \cup (IF s.procs[p].ok THEN {"startedOk"}
                                        ELSE {})
                                  \cup (IF s.procs[p].sig THEN {"signalled"}
                                        ELSE {})]
    IN CASE s.procs[p].lst = "start" ->
              startCallback(
                  [s0 EXCEPT !.postgres = 0,
                             !.resp = IF s.procs[p].called
                                      THEN Resp("-", "fatal", "event") ELSE @],
                  p, "postgres exited unexpectedly")
         [] s.procs[p].lst = "stop" ->
              LET i == CHOOSE j \in 1..Len(s.stops) :
                          s.stops[j].pid = p /\ s.stops[j].listening
              IN afterStop([s0 EXCEPT !.postgres = 0,
                                      !.procs[p].lst = "none",
                                      !.stops = RemoveAt(s.stops, i)],
                           s.stops[i].ret, NoErr)
         [] OTHER -> s0

\* the timers of _stop(): SIGQUIT after opsTimeout, SIGKILL after another,
\* then, in a timer with no delay, failure
stopTimer(s, i) ==
    LET x == s.stops[i]
    IN CASE x.stage = "SIGINT" -> [s EXCEPT !.stops[i].stage = "SIGQUIT"]
         [] x.stage = "SIGQUIT" -> [s EXCEPT !.stops[i].stage = "SIGKILL"]
         [] OTHER ->
              LET s1 == unlisten(s, x.pid)
              IN afterStop([s1 EXCEPT !.stops = RemoveAt(s1.stops, i)],
                           x.ret, "SIGKILL failed")

\* _start's setInterval: one more probe
startTick(s, p) ==
    [s EXCEPT !.procs[p].ticks = IF @ > OpsTimeout THEN @ ELSE @ + 1,
              !.procs[p].probes = @ + 1]

\* the callback of a start-up probe
startProbe(s, p, ok) ==
    LET s1 == [s EXCEPT !.procs[p].probes = @ - 1]
    IN IF ok THEN startCallback(s1, p, NoErr)
       ELSE IF s.procs[p].ticks > OpsTimeout THEN _stop(s1, Ret("start", p))
       ELSE s1

\* ------------------------------------------------- the transitions
\* _cancelTransitioning that calls cancel() and goes on without waiting for
\* the task's 'done'
_cancelTransitioning_noWait(s, w) ==
    IF s.transitionFunc # 0
    THEN afterCancel(Log(checkReplCancel([s EXCEPT !.pc = w],
                                         s.transitionFunc), "cancel"), NoErr)
    ELSE afterCancel([s EXCEPT !.pc = w], NoErr)

\* _cancelTransitioning of _primary, _updateStandby and _standby
_cancelTransitioning(s, w) ==
    IF s.transitionFunc # 0
    THEN Log(checkReplCancel([s EXCEPT !.tasks[s.transitionFunc].waited = TRUE,
                                       !.pc = w],
                             s.transitionFunc), "cancel")
    ELSE afterCancel([s EXCEPT !.pc = w], NoErr)

_primary(s) == _cancelTransitioning(s, "p.cancelWait")
_updateStandby(s) == _cancelTransitioning(s, "us.cancelWait")
_standby(s) == _cancelTransitioning(s, "s.cancelWait")

\* self._pgconfig, which _reconfigure reads and nothing ever assigns
pgconfig == NoTopology

\* _reconfigure.comparePeers: "throw" where it dereferences a null peer
comparePeers(a, b) ==
    IF a = Null /\ b = Null THEN "true"
    ELSE IF a = Null \/ b = Null THEN "throw"
    ELSE IF a = b THEN "true" ELSE "false"

\* an exception that leaves the public call
throw(s) == [s EXCEPT !.pc = "thrown", !.resp = Resp(s.op, "TypeError", "throw")]

\* the test at the head of _reconfigure's "nothing to do" branch
sameConfig(s) ==
    IF ~(s.req # NoTopology /\ pgconfig # NoTopology
         /\ s.req.role = s.pgConfig.role)
    THEN "false"
    ELSE LET u == comparePeers(s.req.upstream, s.pgConfig.upstream)
             d == comparePeers(s.req.downstream, s.pgConfig.downstream)
         IN IF u # "true" THEN u
            ELSE IF d # "true" THEN d
            ELSE IF s.appliedPgConfig THEN "true" ELSE "false"

\* _reconfigure without the path of _updateStandby
_reconfigure_noUpdateStandby(s) ==
    IF s.req.role = "none" THEN [s EXCEPT !.pc = "imm.onReconfigure"]
    ELSE IF sameConfig(s) = "throw" THEN throw(s)
    ELSE IF sameConfig(s) = "true"
    THEN IF s.postgres # 0 THEN [s EXCEPT !.pc = "imm.callback"]
         ELSE _start([s EXCEPT !.caller = "direct"])
    ELSE LET s1 == IF s.req = NoTopology THEN [s EXCEPT !.req = s.pgConfig]
                   ELSE s
         IN IF s1.req.role = "primary" THEN _primary(s1) ELSE _standby(s1)

_reconfigure(s) ==
    IF s.req.role = "none" THEN [s EXCEPT !.pc = "imm.onReconfigure"]
    ELSE IF sameConfig(s) = "throw" THEN throw(s)
    ELSE IF sameConfig(s) = "true"
    THEN IF s.postgres # 0 THEN [s EXCEPT !.pc = "imm.callback"]
         ELSE _start([s EXCEPT !.caller = "direct"])
    ELSE IF /\ s.postgres # 0
            /\ s.pgConfig # NoTopology
            /\ s.req # NoTopology
            /\ s.pgConfig.role = "primary"
            /\ s.req.role = "primary"
    THEN IF s.req.downstream = Null THEN throw(s) ELSE _updateStandby(s)
    ELSE LET s1 == IF s.req = NoTopology THEN [s EXCEPT !.req = s.pgConfig]
                   ELSE s
         IN IF s1.req.role = "primary" THEN _primary(s1) ELSE _standby(s1)

\* ------------------------------------------------- the public calls
Busy == "already transitioning"
called(s, name) == [s EXCEPT !.resp.call = name]
fail(s, name, err) == [s EXCEPT !.resp = Resp(name, err, "call")]
accept(s, name, t) ==
    [s EXCEPT !.transitioning = TRUE, !.op = name, !.req = t]

\* start() without the test of _running
start_noRunning(s) ==
    called(IF s.transitioning THEN fail(s, "start", Busy)
           ELSE IF s.pgConfig = NoTopology THEN fail(s, "start", "not configured")
           ELSE IF s.pgConfig.role = "none" THEN fail(s, "start", "role is none")
           ELSE _reconfigure(accept(s, "start", NoTopology)),
           "start")

start(s) ==
    called(IF s.transitioning THEN fail(s, "start", Busy)
           ELSE IF s.running THEN fail(s, "start", "already running")
           ELSE IF s.pgConfig = NoTopology THEN fail(s, "start", "not configured")
           ELSE IF s.pgConfig.role = "none" THEN fail(s, "start", "role is none")
           ELSE _reconfigure(accept(s, "start", NoTopology)),
           "start")

\* stop() without the test of _transitioning
stop_noBusy(s) ==
    called(IF ~s.running THEN fail(s, "stop", "not running")
           ELSE _stop(accept(s, "stop", NoTopology), Ret("stop", 0)),
           "stop")

stop(s) ==
    called(IF s.transitioning THEN fail(s, "stop", Busy)
           ELSE IF ~s.running THEN fail(s, "stop", "not running")
           ELSE _stop(accept(s, "stop", NoTopology), Ret("stop", 0)),
           "stop")

\* close(): stop() if running, then _stopHealthCheck
close(s) ==
    called(IF ~s.running THEN _stopHealthCheck(s)
           ELSE closeCb(stop([s EXCEPT !.healthChk.closing = TRUE])),
           "close")

\* reconfigure() answering a call made while not running without storing
\* the topology
reconfigure_notStored(s, t) ==
    called(IF s.transitioning THEN fail(s, "reconfigure", Busy)
           ELSE IF ~s.running
           THEN [s EXCEPT !.appliedPgConfig = FALSE,
                          !.resp = Resp("reconfigure", "ok", "deferred")]
           ELSE _reconfigure([accept(s, "reconfigure", t)
                                 EXCEPT !.expectNoop = FALSE]),
           "reconfigure")

\* what the caller of reconfigure(t) expects of a repeated topology
repeats(s, t) ==
    /\ s.appliedPgConfig
    /\ s.pgConfig = t
    /\ s.postgres # 0
    /\ s.procs[s.postgres].alive

reconfigure(s, t) ==
    called(IF s.transitioning THEN fail(s, "reconfigure", Busy)
           ELSE IF ~s.running
           THEN [s EXCEPT !.pgConfig = t, !.appliedPgConfig = FALSE,
                          !.resp = Resp("reconfigure", "ok", "deferred")]
           ELSE _reconfigure([accept(s, "reconfigure", t)
                                 EXCEPT !.expectNoop = repeats(s, t)]),
           "reconfigure")

\* ------------------------------------------------- the manager
\* the replication status rows the status query may bring back here
SpecRows == {QueryErr, NoRow,
             Row("ok", <<0, 1>>, <<0, 0>>), Row("ok", <<0, 1>>, <<0, 1>>)}

Init ==
    /\ oneNodeWriteMode \in BOOLEAN
    /\ pgConfig = NoTopology
    /\ appliedPgConfig = FALSE
    /\ running = FALSE
    /\ transitioning = FALSE
    /\ postgres = 0
    /\ procs = [p \in 1..MaxProcs |-> FreeProc]
    /\ stops = <<>>
    /\ transitionFunc = 0
    /\ tasks = [t \in 1..MaxTasks |-> FreeTask]
    /\ pgConf = NoConf
    /\ pc = "idle"
    /\ caller = "-"
    /\ req = NoTopology
    /\ isRestore = FALSE
    /\ pendErr = NoErr
    /\ op = "-"
    /\ expectNoop = FALSE
    /\ resp = NoResp
    /\ did = {}
    /\ crashed = FALSE
    /\ hist = NoHist
    /\ pg = NoPg
    /\ healthChk = HealthChk0

\* the topologies the callers of reconfigure() ask for: the code treats the
\* roles sync and async alike, so one of them stands for both
Requests == {t \in Topologies : t.role # "async"}

\* what resolveVersionedPaths() can do; a call turned away at once never
\* reaches it
Resolves == IF transitioning THEN {TRUE} ELSE BOOLEAN

\* close() ends the use of the manager: "once called, you must create a new
\* PostgresMgr rather than trying to reuse the current one"
inUse == ~crashed /\ ~healthChk.closed

Start == inUse /\ \E rv \in Resolves : Apply(start(Cur(rv)))

Stop == inUse /\ Apply(stop(Cur(TRUE)))

Reconfigure ==
    /\ inUse
    /\ \E rv \in Resolves : \E t \in Requests :
          validTopology(oneNodeWriteMode, t) /\ Apply(reconfigure(Cur(rv), t))

\* setImmediate(onReconfigure) and setImmediate(callback) of _reconfigure
Immediate ==
    /\ ~crashed
    /\ pc \in {"imm.onReconfigure", "imm.callback"}
    /\ Apply(IF pc = "imm.onReconfigure" THEN onReconfigure(Cur(TRUE), NoErr)
             ELSE callback(Cur(TRUE), NoErr))

\* a file-system, zfs or restore step of a pipeline calls back
IoDone ==
    /\ ~crashed
    /\ pc \in IoWaits
    /\ \E rv \in BOOLEAN : \E ok \in BOOLEAN : Apply(ioDone(Cur(rv), ok))

\* the health probe of _restart calls back
RestartHealth ==
    /\ ~crashed
    /\ pc = "restart.health"
    /\ \E rv \in BOOLEAN : \E ok \in BOOLEAN :
          /\ ok => \E p \in 1..MaxProcs : procs[p].alive
          /\ Apply(restartHealth(Cur(rv), IF ok THEN NoErr ELSE "unhealthy"))

\* the child process exits
ProcExit ==
    /\ ~crashed
    /\ \E rv \in BOOLEAN : \E p \in 1..MaxProcs :
          procs[p].alive /\ Apply(procExit(Cur(rv), p))

\* the timers of the oldest _stop() elapse, none of them seeing the exit
StopTimer ==
    /\ ~crashed
    /\ stops # <<>>
    /\ \E rv \in BOOLEAN :
          Apply(stopTimer(stopTimer(stopTimer(Cur(rv), 1), 1), 1))

\* the interval of a _start() fires and its probe calls back
StartProbe ==
    /\ ~crashed
    /\ \E rv \in BOOLEAN : \E p \in 1..MaxProcs : \E ok \in BOOLEAN :
          /\ procs[p].ival
          /\ ok => \E q \in 1..MaxProcs : procs[q].alive
          /\ Apply(startProbe(startTick(Cur(rv), p), p, ok))

\* the poll timer of a task fires: the status query is sent
TaskTimer ==
    /\ ~crashed
    /\ \E t \in 1..MaxTasks :
          /\ tasks[t].st = "timer"
          /\ Apply([Cur(TRUE) EXCEPT !.tasks[t].st = "query"])

\* the status query of a task calls back
TaskPoll ==
    /\ ~crashed
    /\ \E rv \in BOOLEAN : \E t \in 1..MaxTasks : \E row \in SpecRows :
          /\ tasks[t].st = "query"
          /\ Apply(checkReplication(Cur(rv), t, row, PollPeriod))

\* the configuration write of a task's _enableWrites calls back
TaskConf ==
    /\ ~crashed
    /\ \E rv \in BOOLEAN : \E t \in 1..MaxTasks : \E ok \in BOOLEAN :
          /\ tasks[t].st = "conf"
          /\ Apply(waitForStandby_enableWrites(Cur(rv), t, ok))

Next ==
    \/ Start
    \/ Stop
    \/ Reconfigure
    \/ Immediate
    \/ IoDone
    \/ RestartHealth
    \/ ProcExit
    \/ StopTimer
    \/ StartProbe
    \/ TaskTimer
    \/ TaskPoll
    \/ TaskConf

Spec == Init /\ [][Next]_vars

\* ------------------------------------------------- the catch-up monitor
\* A primary whose _waitForStandby("A") has just sent its first status query,
\* with a status source that may answer anything, at any latency.
ReplRows ==
    {QueryErr, NoRow}
        \cup {Row("ok", a, b) : a \in Lsns \cup {BadLsn}, b \in Lsns \cup {BadLsn}}

Latencies == PollPeriod..(PollPeriod + MaxLatency)

wellFormed(row) ==
    row.k = "ok" /\ xlogValidate(row.sent) /\ xlogValidate(row.flush)

\* the 'done' events a task's monitor has emitted when it is enabling writes
emits(k) ==
    IF k.st # "conf" THEN 0
    ELSE IF k.cause = "caughtup" /\ k.cancel THEN 2 ELSE 1

Max(a, b) == IF a >= b THEN a ELSE b
SinceCap == ReplTimeout + 2 * (PollPeriod + MaxLatency)

\* what the answer `row`, d after the previous one, adds to the history of
\* the status source, and what the monitor made of it (state s1)
observe(h, row, d, s1, t) ==
    LET wf == wellFormed(row)
        incr == h.incr /\ wf
                  /\ (h.last = NoLoc \/ xlogCompare(row.flush, h.last) > 0)
        stall == h.stall /\ wf /\ xlogCompare(row.sent, row.flush) # 0
                   /\ (h.first = NoLoc \/ xlogCompare(row.flush, h.first) <= 0)
        since == IF h.first = NoLoc THEN 0
                 ELSE IF h.since + d > SinceCap THEN SinceCap ELSE h.since + d
    IN [h EXCEPT
          !.incr = incr,
          !.stall = stall,
          !.reached = @ \/ (incr /\ xlogCompare(row.sent, row.flush) = 0),
          !.last = IF incr THEN row.flush ELSE NoLoc,
          !.first = IF ~stall THEN NoLoc
                    ELSE IF @ = NoLoc THEN row.flush ELSE @,
          !.since = IF stall THEN since ELSE 0,
          !.lastD = IF stall THEN d ELSE 0,
          !.polls = IF ~(incr \/ stall) THEN 0 ELSE IF @ < 2 THEN @ + 1 ELSE @,
          !.qerr = @ \/ row.k = "err",
          !.bad = row.k = "ok" /\ ~wf,
          !.fail = row.k \in {"err", "none"},
          !.dones = Max(@, emits(s1.tasks[t])),
          !.errs = IF s1.tasks[t].st = "free" THEN @ + 1 ELSE @]

InitRepl ==
    /\ oneNodeWriteMode = FALSE
    /\ pgConfig = [role |-> "primary", upstream |-> Null, downstream |-> "A"]
    /\ appliedPgConfig = TRUE
    /\ running = TRUE
    /\ transitioning = FALSE
    /\ postgres = 1
    /\ procs = [p \in 1..MaxProcs |->
                  IF p = 1 THEN [FreeProc EXCEPT !.alive = TRUE,
                                                 !.lst = "start",
                                                 !.called = TRUE]
                  ELSE FreeProc]
    /\ stops = <<>>
    /\ transitionFunc = 1
    /\ tasks = [t \in 1..MaxTasks |->
                  IF t = 1 THEN [FreeTask EXCEPT !.st = "query", !.stdby = "A"]
                  ELSE FreeTask]
    /\ pgConf = Conf("on", "tmpl", Tunable)
    /\ pc = "idle"
    /\ caller = "-"
    /\ req = NoTopology
    /\ isRestore = FALSE
    /\ pendErr = NoErr
    /\ op = "-"
    /\ expectNoop = FALSE
    /\ resp = NoResp
    /\ did = {}
    /\ crashed = FALSE
    /\ hist = [NoHist EXCEPT !.on = TRUE, !.incr = TRUE, !.stall = TRUE]
    /\ pg = NoPg
    /\ healthChk = HealthChk0

\* the poll timer fires: the next status query is sent
ReplTimer ==
    /\ tasks[1].st = "timer"
    /\ Apply([Cur(TRUE) EXCEPT !.tasks[1].st = "query"])

\* the status query calls back, d after the previous answer
ReplPoll ==
    /\ tasks[1].st = "query"
    /\ \E row \in ReplRows : \E d \in Latencies :
          LET s1 == checkReplication(Cur(TRUE), 1, row, d)
          IN Apply([s1 EXCEPT !.hist = observe(hist, row, d, s1, 1)])

\* a later transition calls cancel() on the task
ReplCancel ==
    /\ transitionFunc = 1
    /\ ~hist.cancelled
    /\ LET s1 == checkReplCancel(Cur(TRUE), 1)
       IN Apply([s1 EXCEPT !.hist = [hist EXCEPT
                                        !.cancelled = TRUE,
                                        !.dones = Max(@, emits(s1.tasks[1]))]])

\* the configuration write of _enableWrites calls back
ReplConf ==
    /\ tasks[1].st = "conf"
    /\ \E ok \in BOOLEAN : Apply(waitForStandby_enableWrites(Cur(TRUE), 1, ok))

NextRepl ==
    \/ ReplTimer
    \/ ReplPoll
    \/ ReplCancel
    \/ ReplConf

SpecRepl == InitRepl /\ [][NextRepl]_vars

\* the event loop runs every timer that is due and every callback that has
\* arrived; when the status source answers is not up to the program, but
\* _queryDb() calls back, with the row or with an error, within queryTimeout
FairSpecRepl ==
    SpecRepl /\ WF_vars(ReplTimer) /\ WF_vars(ReplPoll) /\ WF_vars(ReplConf)

\* ------------------------------------------------- the manager with close()
\* a caller of close()
Close == inUse /\ Apply(close(Cur(TRUE)))

\* the setImmediate(callback) of _stopHealthCheck: close() calls back
CloseImmediate ==
    /\ ~crashed
    /\ healthChk.imm
    /\ Apply([Cur(TRUE) EXCEPT !.healthChk.imm = FALSE,
                               !.resp = Resp("close", "ok", "done")])

NextClose ==
    \/ Start
    \/ Stop
    \/ Reconfigure
    \/ Immediate
    \/ IoDone
    \/ RestartHealth
    \/ ProcExit
    \/ StopTimer
    \/ StartProbe
    \/ TaskTimer
    \/ TaskPoll
    \/ TaskConf
    \/ Close
    \/ CloseImmediate

SpecClose == Init /\ [][NextClose]_vars

\* ------------------------------------------------- the signals of _stop
\* what the child does about signals: it exits on the first signal of the
\* kind it obeys, on none of them, or on its own
Dispositions == {"SIGINT", "SIGQUIT", "SIGKILL", "never", "own"}

sent(h) == {h.sigs[i] : i \in 1..Len(h.sigs)}

\* the signal the step that led to s1 has sent, added to the history
signalled(h, sig) == [h EXCEPT !.sigs = Append(@, sig), !.t = 0]

\* postgres runs, started by this manager as a primary without standby
InitStop ==
    /\ oneNodeWriteMode \in BOOLEAN
    /\ pgConfig = [role |-> "primary", upstream |-> Null, downstream |-> Null]
    /\ appliedPgConfig = TRUE
    /\ running = TRUE
    /\ transitioning = FALSE
    /\ postgres = 1
    /\ procs = [p \in 1..MaxProcs |->
                  IF p = 1 THEN [FreeProc EXCEPT !.alive = TRUE,
                                                 !.lst = "start",
                                                 !.called = TRUE]
                  ELSE FreeProc]
    /\ stops = <<>>
    /\ transitionFunc = 0
    /\ tasks = [t \in 1..MaxTasks |-> FreeTask]
    /\ pgConf = Conf(IF oneNodeWriteMode THEN "tmpl" ELSE "on", "tmpl", Tunable)
    /\ pc = "idle"
    /\ caller = "-"
    /\ req = NoTopology
    /\ isRestore = FALSE
    /\ pendErr = NoErr
    /\ op = "-"
    /\ expectNoop = FALSE
    /\ resp = NoResp
    /\ did = {}
    /\ crashed = FALSE
    /\ \E o \in Dispositions : hist = [NoHist EXCEPT !.obeys = o]
    /\ pg = NoPg
    /\ healthChk = HealthChk0

\* a caller of stop()
LadderStop ==
    /\ Len(hist.sigs) + 3 <= MaxSignals
    /\ LET s1 == stop(Cur(TRUE))
       IN Apply([s1 EXCEPT !.hist = IF "SIGINT" \in s1.did
                                     THEN signalled(hist, "SIGINT") ELSE hist])

\* time passes while a timer of _stop() with the delay opsTimeout is pending
LadderTick ==
    /\ stops # <<>>
    /\ stops[1].stage # "SIGKILL"
    /\ hist.t < OpsTimeout
    /\ Apply([Cur(TRUE) EXCEPT !.hist.t = @ + 1])

\* the pending timer of _stop() fires: the first two opsTimeout after they
\* were set, the last one, set without a delay, at once
LadderTimer ==
    /\ stops # <<>>
    /\ stops[1].stage # "SIGKILL" => hist.t = OpsTimeout
    /\ LET s1 == stopTimer(Cur(TRUE), 1)
       IN Apply([s1 EXCEPT !.hist =
                    CASE stops[1].stage = "SIGINT" -> signalled(hist, "SIGQUIT")
                      [] stops[1].stage = "SIGQUIT" -> signalled(hist, "SIGKILL")
                      [] OTHER -> hist])

\* the child exits, on its own or on a signal it obeys, as soon or as late
\* as the operating system reports it
LadderExit ==
    /\ procs[1].alive
    /\ hist.obeys = "own" \/ hist.obeys \in sent(hist)
    /\ Apply(procExit(Cur(TRUE), 1))

NextStop ==
    \/ LadderStop
    \/ LadderTick
    \/ LadderTimer
    \/ LadderExit

SpecStop == InitStop /\ [][NextStop]_vars

\* ------------------------------------------------- the shape of a topology
\* what a caller may hand to reconfigure(): any role, with or without peers
AnyTopologies ==
    [role : {"primary", "sync", "async", "none", "bogus"},
     upstream : Upstreams \cup {Null}, downstream : Downstreams \cup {Null}]

\* reconfigure() from its first line: a failed assertion throws to the
\* caller before anything is read or written
reconfigureAny(s, t) ==
    IF validTopology(s.oneNodeWriteMode, t) THEN reconfigure(s, t)
    ELSE called([s EXCEPT !.resp = Resp("reconfigure", "AssertionError",
                                        "throw")], "reconfigure")

\* a caller of reconfigure(), with any topology; what a well-formed one
\* sets off when the manager is running and idle is not followed here
ShapeReconfigure ==
    \E t \in AnyTopologies :
        /\ validTopology(oneNodeWriteMode, t) => (transitioning \/ ~running)
        /\ Apply(reconfigureAny(Cur(TRUE), t))

NextShape ==
    \/ ShapeReconfigure
    \/ LadderStop
    \/ LadderTick
    \/ LadderTimer
    \/ LadderExit

SpecShape == InitStop /\ [][NextShape]_vars

\* ------------------------------------------------- the query serializer
\* _pgQueryKick dispatching whether or not a request is outstanding
_pgQueryKick_noGuard(q) ==
    IF q.queued = <<>> THEN q
    ELSE LET rq == Head(q.queued)
             q1 == [q EXCEPT !.queued = Tail(@), !.outstanding = rq]
             q2 == IF q1.client # 0 THEN q1
                   ELSE IF q1.made = MaxClients THEN [q1 EXCEPT !.blocked = TRUE]
                   ELSE [q1 EXCEPT !.made = @ + 1, !.client = q1.made + 1,
                                   !.listen = @ \cup {q1.made + 1}]
         IN [q2 EXCEPT !.rqs[rq].on = q2.client, !.rqs[rq].active = TRUE,
                       !.disp = Append(@, rq)]

\* _pgQueryKick: dispatches the head of the queue when nothing is
\* outstanding, on a new client when there is none
_pgQueryKick(q) ==
    IF q.outstanding # 0 THEN q
    ELSE IF q.queued = <<>> THEN q
    ELSE LET rq == Head(q.queued)
             q1 == [q EXCEPT !.queued = Tail(@), !.outstanding = rq]
             q2 == IF q1.client # 0 THEN q1
                   ELSE IF q1.made = MaxClients THEN [q1 EXCEPT !.blocked = TRUE]
                   ELSE [q1 EXCEPT !.made = @ + 1, !.client = q1.made + 1,
                                   !.listen = @ \cup {q1.made + 1}]
         IN [q2 EXCEPT !.rqs[rq].on = q2.client, !.rqs[rq].active = TRUE,
                       !.disp = Append(@, rq)]

\* _queryDb: the request goes to the end of the queue, then the kick
_queryDb(q, queryStr) ==
    _pgQueryKick([q EXCEPT !.n = @ + 1, !.queued = Append(@, q.n + 1),
                           !.rqs[q.n + 1].str = queryStr])

\* rq.callback, wrapped in once(); `again` when the callee submits a query
rqCallback(q, rq, res, again) ==
    LET q1 == IF q.rqs[rq].cbs > 0 THEN q
              ELSE [q EXCEPT !.rqs[rq].cbs = 1, !.rqs[rq].res = res,
                             !.order = Append(@, rq)]
    IN IF again /\ q1.n < MaxQueries
       THEN _queryDb([q1 EXCEPT !.re = TRUE], "select current_time;")
       ELSE q1

\* _pgQueryFini keeping the client after an error
_pgQueryFini_keepClient(q, err, again) ==
    IF q.outstanding = 0 THEN [q EXCEPT !.crashed = TRUE]
    ELSE LET rq == q.outstanding
             q1 == [q EXCEPT !.outstanding = 0]
         IN _pgQueryKick(rqCallback(q1, rq, IF err THEN "err" ELSE "ok", again))

\* _pgQueryFini: the outstanding request is called back; after an error the
\* client is dropped before the callback; then the kick
_pgQueryFini(q, err, again) ==
    IF q.outstanding = 0 THEN [q EXCEPT !.crashed = TRUE]
    ELSE LET rq == q.outstanding
             q1 == [q EXCEPT !.outstanding = 0,
                             !.client = IF err THEN 0 ELSE @]
         IN _pgQueryKick(rqCallback(q1, rq, IF err THEN "err" ELSE "ok", again))

\* the once('error') listener _pgQueryKick gave client c: it works on
\* self._pgClient, whichever client that is by now
clientError(q, c, again) ==
    LET q1 == [q EXCEPT !.listen = @ \ {c}, !.errored = @ \cup {c}]
    IN IF q1.client = 0 THEN [q1 EXCEPT !.crashed = TRUE]
       ELSE LET q2 == [q1 EXCEPT !.listen = @ \ {q1.client}]
            IN IF q2.outstanding # 0 THEN _pgQueryFini(q2, TRUE, again)
               ELSE [q2 EXCEPT !.client = 0]

\* query.once('error')
queryError(q, r, again) ==
    LET q1 == [q EXCEPT !.rqs[r].active = FALSE]
    IN IF r = q1.outstanding THEN _pgQueryFini(q1, TRUE, again) ELSE q1

\* query.once('end'): assert.ok(rq == self._pgRequestOutstanding)
queryEnd(q, r, again) ==
    LET q1 == [q EXCEPT !.rqs[r].active = FALSE]
    IN IF r # q1.outstanding THEN [q1 EXCEPT !.crashed = TRUE]
       ELSE _pgQueryFini(q1, FALSE, again)

\* the request that is dispatched next once the outstanding one is done
nextRq(q, again) ==
    IF q.queued # <<>> THEN Head(q.queued)
    ELSE IF again /\ q.n < MaxQueries THEN q.n + 1
    ELSE 0

\* the event `kind` has been handled and has led to q1
event(q1, kind, again) ==
    [q1 EXCEPT !.ev = [kind |-> kind, rq |-> pg.outstanding,
                       client |-> pg.client, next |-> nextRq(pg, again)],
               !.clean = @ /\ kind \in {"submit", "row", "end"}]

Step(q) ==
    /\ ~q.blocked
    /\ pg' = [q EXCEPT !.blocked = FALSE]
    /\ resp' = NoResp
    /\ did' = {}
    /\ UNCHANGED <<oneNodeWriteMode, pgConfig, appliedPgConfig, running,
                   transitioning, postgres, procs, stops, transitionFunc,
                   tasks, pgConf, pc, caller, req, isRestore, pendErr, op,
                   expectNoop, crashed, hist, healthChk>>

\* a caller of _queryDb()
Submit ==
    /\ ~pg.crashed
    /\ pg.n < MaxQueries
    /\ Step(event(_queryDb(pg, "select current_time;"), "submit", FALSE))

\* a query emits 'row'
QueryRow ==
    /\ ~pg.crashed
    /\ \E r \in 1..MaxQueries :
          /\ pg.rqs[r].active /\ ~pg.rqs[r].row
          /\ pg.rqs[r].on \notin pg.errored
          /\ Step(event([pg EXCEPT !.rqs[r].row = TRUE], "row", FALSE))

\* a query emits 'end', which it does on a client that has not failed
QueryEnd ==
    /\ ~pg.crashed
    /\ \E r \in 1..MaxQueries : \E again \in BOOLEAN :
          /\ pg.rqs[r].active
          /\ pg.rqs[r].on \notin pg.errored
          /\ Step(event(queryEnd(pg, r, again), "end", again))

\* a query emits 'error'
QueryError ==
    /\ ~pg.crashed
    /\ \E r \in 1..MaxQueries : \E again \in BOOLEAN :
          /\ pg.rqs[r].active
          /\ Step(event(queryError(pg, r, again),
                        IF r = pg.outstanding THEN "qerr" ELSE "late", again))

\* a client emits 'error': the current one, or one dropped earlier whose
\* connection was never closed
ClientError ==
    /\ ~pg.crashed
    /\ \E c \in pg.listen : \E again \in BOOLEAN :
          Step(event(clientError(pg, c, again),
                     IF c = pg.client THEN "cerr" ELSE "stale", again))

\* getXLogLocation() whatever the role
getXLogLocation_anyRole(s, q) ==
    IF ~s.running
    THEN [s |-> called(fail(s, "getXLogLocation", "not running"),
                       "getXLogLocation"),
          q |-> q]
    ELSE [s |-> called(s, "getXLogLocation"),
          q |-> _queryDb(q, "SELECT pg_current_xlog_location() as loc;")]

\* getXLogLocation(): the manager as it leaves it and the serializer as it
\* leaves it; onResponse hands an error on as it is
getXLogLocation(s, q) ==
    IF ~s.running
    THEN [s |-> called(fail(s, "getXLogLocation", "not running"),
                       "getXLogLocation"),
          q |-> q]
    ELSE [s |-> called(s, "getXLogLocation"),
          q |-> _queryDb(q, IF s.pgConfig.role = "primary"
                            THEN "SELECT pg_current_xlog_location() as loc;"
                            ELSE "SELECT pg_last_xlog_replay_location() as loc;")]

NextQuery ==
    \/ Submit
    \/ QueryRow
    \/ QueryEnd
    \/ QueryError
    \/ ClientError

SpecQuery == Init /\ [][NextQuery]_vars

\* ------------------------------------------------- getXLogLocation
\* a manager that is stopped with a topology stored, or runs with the
\* topology applied, as a primary, as a standby, or with the role none
InitXlog ==
    /\ oneNodeWriteMode = FALSE
    /\ running \in BOOLEAN
    /\ \E r \in {"primary", "sync", "none"} :
          /\ pgConfig = [role |-> r, downstream |-> Null,
                         upstream |-> IF r = "sync" THEN "A" ELSE Null]
          /\ pgConf = IF ~running THEN NoConf
                      ELSE IF r = "sync" THEN Conf("tmpl", "tmpl", "off")
                      ELSE Conf("on", "tmpl", Tunable)
    /\ appliedPgConfig = running
    /\ transitioning = FALSE
    /\ postgres = IF running THEN 1 ELSE 0
    /\ procs = [p \in 1..MaxProcs |->
                  IF p = 1 /\ running
                  THEN [FreeProc EXCEPT !.alive = TRUE, !.lst = "start",
                                        !.called = TRUE]
                  ELSE FreeProc]
    /\ stops = <<>>
    /\ transitionFunc = 0
    /\ tasks = [t \in 1..MaxTasks |-> FreeTask]
    /\ pc = "idle"
    /\ caller = "-"
    /\ req = NoTopology
    /\ isRestore = FALSE
    /\ pendErr = NoErr
    /\ op = "-"
    /\ expectNoop = FALSE
    /\ resp = NoResp
    /\ did = {}
    /\ crashed = FALSE
    /\ hist = NoHist
    /\ pg = NoPg
    /\ healthChk = HealthChk0

\* a caller of getXLogLocation()
GetXLogLocation ==
    /\ ~pg.crashed
    /\ pg.n < MaxQueries
    /\ LET r == getXLogLocation(Cur(TRUE), pg)
       IN /\ ~r.q.blocked
          /\ pg' = IF r.q = pg THEN pg ELSE event(r.q, "submit", FALSE)
          /\ resp' = r.s.resp
          /\ did' = r.s.did
          /\ UNCHANGED <<oneNodeWriteMode, pgConfig, appliedPgConfig, running,
                         transitioning, postgres, procs, stops, transitionFunc,
                         tasks, pgConf, pc, caller, req, isRestore, pendErr,
                         op, expectNoop, crashed, hist, healthChk>>

NextXlog ==
    \/ GetXLogLocation
    \/ Submit
    \/ QueryRow
    \/ QueryEnd
    \/ QueryError
    \/ ClientError

SpecXlog == InitXlog /\ [][NextXlog]_vars

\* ------------------------------------------------- the health check
NoCheck == [age |-> 0, armed |-> TRUE, fired |-> FALSE]

\* the function of setInterval: a timeout is set and _health() is called
healthTick(h) ==
    [h EXCEPT !.checks = Append(@, NoCheck), !.next = 0,
              !.ev = "-", !.last = "tick", !.late = FALSE]

\* the function of the timeout of the tick of check i
healthTimedOut(h, i) ==
    [h EXCEPT !.healthy = "false",
              !.lastErr = "PostgresMgr._startHealthCheck() timed out",
              !.checks[i].armed = FALSE, !.checks[i].fired = TRUE,
              !.ev = "unhealthy", !.last = "timeout", !.late = FALSE]

\* healthHandler declaring the database unhealthy at every error
healthHandler_noWindow(h, ok) ==
    LET h1 == [h EXCEPT !.checks = Tail(@), !.late = h.checks[1].fired,
                        !.last = IF ok THEN "ok" ELSE "err", !.ev = "-"]
    IN IF ~ok
       THEN [h1 EXCEPT !.healthy = "false",
                       !.lastErr = "PostgresMgr.health: health check timed out",
                       !.ev = "unhealthy"]
       ELSE [h1 EXCEPT !.since = 0, !.healthy = "true", !.lastErr = "-",
                       !.ev = "healthy"]

\* healthHandler: the oldest health query calls back
healthHandler(h, ok) ==
    LET h1 == [h EXCEPT !.checks = Tail(@), !.late = h.checks[1].fired,
                        !.last = IF ok THEN "ok" ELSE "err", !.ev = "-"]
    IN IF ~ok
       THEN IF h.since > HealthChkTimeout
            THEN [h1 EXCEPT !.healthy = "false",
                            !.lastErr =
                                "PostgresMgr.health: health check timed out",
                            !.ev = "unhealthy"]
            ELSE h1
       ELSE [h1 EXCEPT !.since = 0, !.healthy = "true", !.lastErr = "-",
                       !.ev = "healthy"]

\* a timeout of the loop that is due
dueChecks(h) ==
    {i \in 1..Len(h.checks) :
        h.checks[i].armed /\ h.checks[i].age >= HealthChkTimeout}

HealthStep(h) ==
    /\ healthChk' = h
    /\ UNCHANGED <<oneNodeWriteMode, pgConfig, appliedPgConfig, running,
                   transitioning, postgres, procs, stops, transitionFunc,
                   tasks, pgConf, pc, caller, req, isRestore, pendErr, op,
                   expectNoop, resp, did, crashed, hist, pg>>

\* a unit of time passes with no timer of the loop due
HealthTime ==
    /\ dueChecks(healthChk) = {}
    /\ healthChk.next < HealthChkInterval
    /\ HealthStep([healthChk EXCEPT
          !.checks = [i \in 1..Len(@) |->
                        [@[i] EXCEPT !.age = IF @ < HealthChkTimeout
                                             THEN @ + 1 ELSE @]],
          !.since = IF @ > HealthChkTimeout THEN @ ELSE @ + 1,
          !.next = @ + 1,
          !.ev = "-", !.last = "time", !.late = FALSE])

\* the interval fires
HealthTick ==
    /\ healthChk.ival
    /\ healthChk.next = HealthChkInterval
    /\ Len(healthChk.checks) < MaxChecks
    /\ HealthStep(healthTick(healthChk))

\* the timeout of a tick fires
HealthTimedOut ==
    \E i \in dueChecks(healthChk) : HealthStep(healthTimedOut(healthChk, i))

\* _health() calls back
HealthReturn ==
    /\ healthChk.checks # <<>>
    /\ \E ok \in BOOLEAN : HealthStep(healthHandler(healthChk, ok))

NextHealth ==
    \/ HealthTime
    \/ HealthTick
    \/ HealthTimedOut
    \/ HealthReturn

SpecHealth == Init /\ [][NextHealth]_vars

\* ------------------------------------------------- properties
activeTasks == {t \in 1..MaxTasks : tasks[t].st # "free"}

\* what a call turned away must leave alone
managerState ==
    <<pgConfig, appliedPgConfig, running, transitioning, postgres, procs,
      stops, transitionFunc, tasks, pgConf, pc, caller, req, isRestore,
      pendErr, op, crashed>>

\* C1: a reconfigure(), start() or stop() called while _transitioning is true
\* calls back at once with 'already transitioning' and changes nothing of
\* the manager; so a pipeline runs exactly while _transitioning is true, one
\* at a time.
C1_BusyWhileTransitioning ==
    [][/\ (transitioning /\ resp'.call # "-") =>
             /\ resp' = [op |-> resp'.call, res |-> Busy, at |-> "call",
                         call |-> resp'.call]
             /\ UNCHANGED managerState
       /\ transitioning' = (pc' # "idle")]_vars

C1_Witness == resp.res = Busy /\ resp.call = "reconfigure" /\ running

\* the work a reconfiguration can do
Work == {"SIGINT", "spawn", "conf", "recoveryConf", "sighup", "task"}

\* C2: a reconfigure() that repeats the applied topology while postgres runs
\* succeeds without stopping or starting postgres, without writing a
\* configuration file, without SIGHUP and without a new catch-up task.
C2_RepeatedTopologyIsNoop ==
    expectNoop =>
        /\ did \cap Work = {}
        /\ resp.at \in {"done", "throw"} => resp.res = "ok"

\* C3: a call that has been accepted is called back and _transitioning is
\* cleared: while _transitioning is true the pipeline still waits for a step
\* of its own and the process is alive to run it.
C3_AcceptedCallCompletes ==
    transitioning => (pc \notin {"idle", "thrown"} /\ ~crashed)

\* C5: a task writes synchronous_standby_names (and then signals SIGHUP) only
\* when its monitor ended because the standby had caught up.
C5_EnableWritesOnlyWhenCaughtUp ==
    \A t \in 1..MaxTasks : tasks[t].st = "conf" => tasks[t].cause = "caughtup"

\* C6: at most one catch-up task is active at any moment, and _transitionFunc
\* is non-null exactly while that task has not emitted its 'done'.
C6_OneCatchupTask ==
    /\ Cardinality(activeTasks) <= 1
    /\ (transitionFunc # 0) = (activeTasks # {})
    /\ transitionFunc # 0 => transitionFunc \in activeTasks

\* a pipeline has cancelled the task and waits for its 'done'
C6_Witness ==
    /\ pc \in {"p.cancelWait", "us.cancelWait", "s.cancelWait"}
    /\ transitionFunc # 0
    /\ tasks[transitionFunc].waited
    /\ tasks[transitionFunc].cancel

\* C7: when a reconfigure() accepted while running reports success, no
\* catch-up task that was active when it was called is still active.
C7_NoEarlierTaskAfterReconfigure ==
    (resp.op = "reconfigure" /\ resp.at = "done" /\ resp.res = "ok") =>
        \A t \in 1..MaxTasks : ~(tasks[t].st # "free" /\ tasks[t].old)

\* C8: a reconfigure() that fails leaves the topology recorded as not
\* applied.
C8_FailureIsNotApplied ==
    (resp.op = "reconfigure" /\ resp.at = "done" /\ resp.res # "ok") =>
        ~appliedPgConfig

\* C4 as claimed: after the topology change the monitor ends, with 'done' or
\* with 'error', or the status query has failed (which the health check,
\* querying the same database, reports as unhealthy).
C4_MonitorEnds == <>(hist.dones > 0 \/ hist.errs > 0 \/ hist.qerr)

\* C4: while the monitor polls, no more than replicationTimeout has passed
\* since the last answer that reset its clock: an answer that showed
\* progress, or a query that failed, returned no row or a malformed one.
C4_BoundedSinceReset ==
    \A t \in 1..MaxTasks :
        tasks[t].st \in {"query", "timer"} => tasks[t].elapsed <= ReplTimeout

\* the monitor still polls with the whole timeout used up
C4_Witness ==
    hist.on /\ tasks[1].st = "timer" /\ tasks[1].elapsed = ReplTimeout
        /\ hist.polls = 2

C10_ErrorAtFirstPollPastTimeout ==
    (hist.on /\ hist.stall /\ ~hist.cancelled /\ hist.first # NoLoc) =>
        /\ hist.dones = 0
        /\ hist.errs = (IF hist.since > ReplTimeout THEN 1 ELSE 0)
        /\ hist.errs = 1 =>
              /\ hist.since - hist.lastD <= ReplTimeout
              /\ tasks[1].st = "free"
              /\ transitionFunc = 0
        /\ hist.errs = 0 => tasks[1].st \in {"query", "timer"}

C10_Witness ==
    hist.on /\ hist.stall /\ ~hist.cancelled /\ hist.errs = 1
        /\ hist.since > ReplTimeout

inFlight == {r \in 1..MaxQueries : pg.rqs[r].active}

\* C12: while the client has reported no error, at most one query is in
\* flight and it is the outstanding request, requests are dispatched and
\* called back in the order of their submission, each at most once, and
\* when nothing is outstanding every request submitted has been called back.
C12_QueriesSerialized ==
    pg.clean =>
        /\ ~pg.crashed
        /\ Cardinality(inFlight) <= 1
        /\ inFlight = (IF pg.outstanding = 0 THEN {} ELSE {pg.outstanding})
        /\ pg.disp = [i \in 1..Len(pg.disp) |-> i]
        /\ pg.order = [i \in 1..Len(pg.order) |-> i]
        /\ Len(pg.order) <= Len(pg.disp)
        /\ \A r \in 1..MaxQueries :
              /\ pg.rqs[r].cbs = (IF r <= Len(pg.order) THEN 1 ELSE 0)
              /\ pg.rqs[r].cbs = 1 => pg.rqs[r].res = "ok"
        /\ pg.outstanding = 0 =>
              (pg.queued = <<>> /\ Len(pg.order) = pg.n)
        /\ pg.outstanding # 0 => Len(pg.order) = pg.outstanding - 1

\* every request has been called back, one of them submitted by a callback
C12_Witness ==
    pg.clean /\ pg.re /\ Len(pg.order) = MaxQueries /\ pg.outstanding = 0

\* C13: when the outstanding query or the current client fails, the
\* outstanding request is called back once, with the wrapped error, the
\* client is dropped, and the request next in line is dispatched on a
\* client created after that, never on a client that has failed.
C13_ErrorDropsClient ==
    (pg.ev.kind \in {"qerr", "cerr"} /\ pg.ev.rq # 0) =>
        /\ ~pg.crashed
        /\ pg.rqs[pg.ev.rq].cbs = 1
        /\ pg.rqs[pg.ev.rq].res = "err"
        /\ pg.client # pg.ev.client
        /\ pg.outstanding = pg.ev.next
        /\ pg.outstanding # 0 =>
              /\ pg.rqs[pg.outstanding].on = pg.client
              /\ pg.client > pg.ev.client
              /\ pg.client \notin pg.errored

\* the client has failed with a request queued behind the outstanding one
C13_Witness ==
    /\ pg.ev.kind = "cerr" /\ pg.ev.rq # 0
    /\ pg.outstanding # 0 /\ pg.outstanding = pg.ev.rq + 1

\* C14 as claimed: stop() reports 'SIGKILL failed' only when the child has
\* not exited opsTimeout after SIGKILL was sent, so a child that exits on
\* SIGKILL makes stop() succeed.
C14_FailureOnlyAfterTimeout ==
    (resp.op = "stop" /\ resp.at = "done" /\ resp.res = "SIGKILL failed") =>
        /\ hist.t >= OpsTimeout
        /\ hist.obeys # "SIGKILL"

\* C15: a _stop() that finds no process handle calls back with success in
\* the same step, sends no signal and arms no timer, every time it is
\* called in that state.
C15_StopWithoutHandle ==
    [][("noHandle" \in did' /\ postgres = 0) =>
          /\ did' \cap Signals = {}
          /\ Len(stops') <= Len(stops)
          /\ pc' \notin StopWaits
          /\ resp'.res # "SIGKILL failed"]_vars

\* stop() has succeeded at once because the child had exited on its own
C15_Witness ==
    "noHandle" \in did /\ resp = [op |-> "stop", res |-> "ok", at |-> "done",
                                  call |-> "stop"]

\* the waits for restoreDataset, and a start() or reconfigure() calling back
Rollbacks == {"s.rollback1", "s.rollback2"}
finishes(r) == r.at = "done" /\ r.op \in {"start", "reconfigure"}

\* C16: in _standby a failed restore (zfs receive or chown), and a failed
\* restart after a restore, lead to restoreDataset and to nothing else; the
\* call is answered only when restoreDataset has called back, with the
\* error that led to it, and the backup is not destroyed.
C16_RollbackBeforeError ==
    [][/\ (pc \in {"s.restore", "s.chown"} /\ finishes(resp')) =>
             resp'.res = "resolveVersionedPaths"
       /\ (caller = "s2" /\ pc \notin Rollbacks \cup {"s.destroy"}) =>
             ~finishes(resp')
       /\ (pc \in Rollbacks /\ finishes(resp')) =>
             /\ pendErr # NoErr
             /\ resp'.res = pendErr
             /\ "destroy" \notin did'
       /\ (pc' \in Rollbacks /\ pc \notin Rollbacks) =>
             /\ "rollback" \in did'
             /\ "destroy" \notin did'
             /\ pc' = "s.rollback1" =>
                   (pc \in {"s.restore", "s.chown"} /\ pendErr' = pc)
             /\ pc' = "s.rollback2" =>
                   (caller = "s2" /\ pendErr' \notin {NoErr, "s.restore",
                                                       "s.chown"})]_vars

\* the restart after a restore has failed and restoreDataset has called back
C16_Witness ==
    /\ finishes(resp)
    /\ resp.res \notin {"ok", "s.restore", "s.chown"}
    /\ did = {"rolledBack"}

\* C17 as claimed: when restoreDataset fails, the call is answered with the
\* failure of the rollback, not with the error that led to the rollback.
C17_RollbackFailureSurfaces ==
    ("rollbackFailed" \in did /\ finishes(resp)) =>
        resp.res \notin {"s.restore", "s.chown", "postgres exited unexpectedly",
                         "unhealthy", "start timeout", "SIGKILL failed",
                         "resolveVersionedPaths"}

\* C18 as claimed: while _running is true the process handle is set and the
\* child it refers to is alive.
C18_RunningImpliesLive ==
    running => (postgres # 0 /\ procs[postgres].alive)

\* where a full reconfiguration to the role r is after its first step
firstWaits(r) ==
    IF r = "primary" THEN {"p.cancelWait", "p.initDb.stop", "p.assertDataset"}
    ELSE {"s.cancelWait", "s.stop", "s.assertDataset"}

\* C19: reconfigure(t) while neither running nor transitioning stores t,
\* marks it not applied, answers with success and leaves the process, the
\* configuration, _transitioning and the task alone; start() then runs the
\* full reconfiguration of the topology stored last, which stays the stored
\* one until start() has called back, applied if it succeeded.
C19_DeferredReconfigure ==
    /\ [](( ~running /\ ~transitioning) =>
            \A t \in {r \in Requests : validTopology(oneNodeWriteMode, r)} :
                reconfigure(Cur(TRUE), t) =
                    [Cur(TRUE) EXCEPT
                        !.pgConfig = t, !.appliedPgConfig = FALSE,
                        !.resp = [op |-> "reconfigure", res |-> "ok",
                                  at |-> "deferred", call |-> "reconfigure"]])
    /\ [][/\ (~transitioning /\ transitioning' /\ resp'.call = "start") =>
                /\ req' = pgConfig
                /\ pgConfig' = pgConfig
                /\ pc' \in firstWaits(pgConfig.role)
          /\ op = "start" => pgConfig' = pgConfig
          /\ (resp'.op = "start" /\ resp'.at = "done" /\ resp'.res = "ok") =>
                /\ appliedPgConfig' /\ running'
                /\ pc \notin {"idle", "imm.callback", "imm.onReconfigure"}]_vars

\* start() has applied the topology a reconfigure() had stored
C19_Witness ==
    /\ resp.op = "start" /\ resp.at = "done" /\ resp.res = "ok"
    /\ appliedPgConfig
    /\ pgConfig.role = "sync"
    /\ oneNodeWriteMode

\* reconfigure(t) throws and has changed nothing
rejects(t) ==
    LET s1 == reconfigureAny(Cur(TRUE), t)
    IN /\ s1.resp = [op |-> "reconfigure", res |-> "AssertionError",
                     at |-> "throw", call |-> "reconfigure"]
       /\ [s1 EXCEPT !.resp = NoResp] = Cur(TRUE)

\* the topologies C20 lists
misshapenAsClaimed(t) ==
    \/ t.role \notin {"primary", "sync", "async", "none"}
    \/ t.role \in {"sync", "async"} /\ (t.upstream = Null \/ t.downstream # Null)
    \/ t.role = "primary" /\ t.upstream # Null
    \/ t.role = "none" /\ (t.upstream # Null \/ t.downstream # Null)
    \/ t.role = "primary" /\ t.downstream = Null /\ ~oneNodeWriteMode

\* the topologies the assertions turn away
misshapen(t) ==
    \/ t.role \notin {"primary", "sync", "async", "none"}
    \/ t.role \in {"sync", "async"} /\ (t.upstream = Null \/ t.downstream # Null)
    \/ t.role = "primary" /\ t.upstream # Null
    \/ t.role = "none" /\ (t.upstream # Null \/ t.downstream # Null)
    \/ t.role = "primary" /\ t.downstream # Null /\ oneNodeWriteMode

C21_StartStopRefusals ==
    /\ [](~transitioning =>
            \A rv \in BOOLEAN :
               /\ (running \/ pgConfig = NoTopology \/ pgConfig.role = "none") =>
                     start(Cur(rv)) =
                        [Cur(rv) EXCEPT !.resp =
                            [op |-> "start", at |-> "call", call |-> "start",
                             res |-> IF running THEN "already running"
                                     ELSE IF pgConfig = NoTopology
                                     THEN "not configured"
                                     ELSE "role is none"]]
               /\ ~running =>
                     stop(Cur(rv)) =
                        [Cur(rv) EXCEPT !.resp =
                            [op |-> "stop", at |-> "call", call |-> "stop",
                             res |-> "not running"]])
    /\ [][/\ (~running /\ running') =>
                /\ op = "start"
                /\ resp'.op = "start" /\ resp'.at = "done" /\ resp'.res = "ok"
          /\ (resp'.op = "start" /\ resp'.at = "done" /\ resp'.res # "ok") =>
                running' = running
          /\ (running /\ ~running') =>
                /\ resp'.op = "stop" /\ resp'.at = "done" /\ resp'.res = "ok"
                /\ postgres' = 0
          /\ (resp'.op = "stop" /\ resp'.at = "done" /\ resp'.res # "ok") =>
                running']_vars

\* start() has been turned away because the stored role is none
C21_Witness ==
    /\ resp = [op |-> "start", res |-> "role is none", at |-> "call",
               call |-> "start"]
    /\ ~running /\ ~transitioning /\ did = {}

\* C22 as claimed: a close() called while a start(), stop() or reconfigure()
\* is in progress is turned away with 'already transitioning'; and when
\* close() calls back with success, _running and _transitioning are false,
\* no child is alive, there is no handle and the health check's interval is
\* cleared.
C22_CloseBusyOrStopped ==
    /\ [][(transitioning /\ resp'.call = "close") =>
             (resp'.op = "close" /\ resp'.res = Busy)]_vars
    /\ []((resp.op = "close" /\ resp.at = "done" /\ resp.res = "ok") =>
             /\ ~running
             /\ ~transitioning
             /\ postgres = 0
             /\ \A p \in 1..MaxProcs : ~procs[p].alive
             /\ ~healthChk.ival)

\* C23: getXLogLocation() called while _running is false calls back with
\* 'not running' and leaves the serializer alone; called while running it
\* hands _queryDb exactly one request, the query of the write location when
\* the stored role is primary and of the replay location when it is a
\* standby's, and that request is called back with an error exactly when it
\* is ended by an 'error' event of its query or of a client.
C23_ReplicationPosition ==
    [][/\ resp'.call = "getXLogLocation" =>
             IF ~running
             THEN /\ resp' = [op |-> "getXLogLocation", res |-> "not running",
                              at |-> "call", call |-> "getXLogLocation"]
                  /\ pg' = pg
             ELSE /\ resp'.res = "-"
                  /\ pg'.n = pg.n + 1
                  /\ Len(pg'.disp) + Len(pg'.queued)
                        = Len(pg.disp) + Len(pg.queued) + 1
                  /\ \A r \in 1..MaxQueries :
                        r # pg'.n => pg'.rqs[r].str = pg.rqs[r].str
                  /\ pgConfig.role = "primary" =>
                        pg'.rqs[pg'.n].str
                           = "SELECT pg_current_xlog_location() as loc;"
                  /\ pgConfig.role \in {"sync", "async"} =>
                        pg'.rqs[pg'.n].str
                           = "SELECT pg_last_xlog_replay_location() as loc;"
       /\ \A r \in 1..MaxQueries :
             (pg.rqs[r].cbs = 0 /\ pg'.rqs[r].cbs = 1) =>
                /\ pg'.ev.kind \in {"qerr", "cerr", "stale", "end"}
                /\ (pg'.rqs[r].res = "err") = (pg'.ev.kind # "end")]_vars

\* a running standby has been asked and has queued the query behind another
C23_Witness ==
    /\ resp.call = "getXLogLocation"
    /\ running
    /\ pgConfig.role = "sync"
    /\ pg.n > 1
    /\ pg.rqs[pg.n].str = "SELECT pg_last_xlog_replay_location() as loc;"
    /\ pg.outstanding # pg.n

C25_UpdateToNoStandby ==
    [][/\ (/\ resp'.call = "reconfigure"
           /\ running /\ ~transitioning /\ postgres # 0
           /\ pgConfig.role = "primary"
           /\ req'.role = "primary" /\ req'.downstream = Null) =>
             /\ resp'.at # "throw"
             /\ pc' \in {"us.cancelWait", "us.conf"}
       /\ (pc = "us.conf" /\ req.downstream = Null /\ resp'.at = "done") =>
             (resp'.res = "ok" =>
                 /\ pgConf' = Conf(IF oneNodeWriteMode THEN "tmpl" ELSE "on",
                                   "tmpl", Tunable)
                 /\ "sighup" \in did'
                 /\ "task" \notin did')]_vars

\* C26: a reconfigure() of a running primary, with its process handle, to a
\* primary with a downstream takes the path of _updateStandby: it cancels
\* the active task and waits for its 'done', then writes postgresql.conf,
\* then sends SIGHUP, then starts the task of the new standby; no step of it
\* signals or spawns postgres or changes the handle, and a step that fails
\* ends it with nothing of the later steps done.
C26_StandbyOnlyUpdate ==
    [][/\ (/\ resp'.call = "reconfigure"
           /\ running /\ ~transitioning /\ postgres # 0
           /\ pgConfig.role = "primary"
           /\ req'.role = "primary" /\ req'.downstream # Null) =>
             /\ pc' = (IF transitionFunc # 0 THEN "us.cancelWait"
                       ELSE "us.conf")
             /\ did' = (IF transitionFunc # 0 THEN {"cancel"} ELSE {})
             /\ transitionFunc # 0 =>
                   /\ tasks'[transitionFunc].cancel
                   /\ tasks'[transitionFunc].waited
             /\ postgres' = postgres /\ pgConf' = pgConf
       /\ (pc = "us.cancelWait" /\ pc' # pc) =>
             /\ transitionFunc' = 0
             /\ did' \cap {"SIGINT", "spawn", "conf", "sighup", "task"} = {}
             /\ postgres' = postgres
             /\ IF pc' = "us.conf" THEN resp'.at # "done"
                ELSE pc' = "idle" /\ resp'.at = "done" /\ resp'.res # "ok"
       /\ (pc = "us.conf" /\ resp'.at = "done") =>
             /\ postgres' = postgres
             /\ IF resp'.res = "ok"
                THEN /\ did' = {"conf", "sighup", "task"}
                     /\ pgConf' = Conf("on", req.downstream, Tunable)
                     /\ transitionFunc' # 0
                     /\ tasks'[transitionFunc'].stdby = req.downstream
                     /\ tasks'[transitionFunc'].st = "query"
                ELSE /\ did' = {}
                     /\ pgConf' = pgConf
                     /\ transitionFunc' = transitionFunc
       /\ (pc = "us.conf" /\ pc' \notin {"us.conf", "idle"}) => FALSE]_vars

\* the standby of a running primary has been replaced, after the task of the
\* old one had been cancelled and awaited
C26_Witness ==
    /\ resp = [op |-> "reconfigure", res |-> "ok", at |-> "done", call |-> "-"]
    /\ did = {"conf", "sighup", "task"}
    /\ pgConfig.downstream = "B"
    /\ \E t \in 1..MaxTasks : tasks[t].stdby = "B" /\ tasks[t].st = "query"
    /\ postgres # 0 /\ procs[postgres].alive

\* C27: _primary runs its stages one after the other: cancel the active task
\* and wait for its 'done'; _initDb, which begins with _stop and goes on only
\* without a handle; the write of postgresql.conf; _restart; the snapshot;
\* and then, if the topology names a downstream, the new task.  A stage that
\* calls back with an error ends the pipeline with that error: nothing of
\* the later stages is done, no task is started, and neither the topology
\* asked for is stored nor _appliedPgConfig set.
C27_PrimaryInOrder ==
  [][LET restarts == {"restart.health", "restart.stop", "restart.start"}
           inP(x, c) ==
               \/ x \in {"p.cancelWait", "p.initDb.stop", "p.assertDataset",
                         "p.stat", "p.chown", "p.chmod", "p.initdb", "p.unlink",
                         "p.conf", "p.snapshot"}
               \/ x \in restarts /\ c = "p"
           next(x) ==
               CASE x = "p.cancelWait" -> {"p.initDb.stop", "p.assertDataset"}
                 [] x = "p.initDb.stop" -> {"p.assertDataset"}
                 [] x = "p.assertDataset" -> {"p.stat"}
                 [] x = "p.stat" -> {"p.chown"}
                 [] x = "p.chown" -> {"p.chmod"}
                 [] x = "p.chmod" -> {"p.initdb"}
                 [] x = "p.initdb" -> {"p.unlink"}
                 [] x = "p.unlink" -> {"p.conf"}
                 [] x = "p.conf" -> {"restart.health"}
                 [] x = "restart.health" -> {"restart.stop", "restart.start"}
                 [] x = "restart.stop" -> {"restart.start"}
                 [] x = "restart.start" -> {"p.snapshot"}
                 [] OTHER -> {}
           later == {"SIGINT", "initdb", "conf", "spawn", "snapshot", "task"}
       IN /\ (~inP(pc, caller) /\ inP(pc', caller')) =>
                /\ pc' \in {"p.cancelWait", "p.initDb.stop", "p.assertDataset"}
                /\ (pc' = "p.cancelWait") = (transitionFunc # 0)
                /\ did' \cap later \subseteq {"SIGINT"}
          /\ (inP(pc, caller) /\ pc' # pc /\ resp'.at # "done") =>
                /\ pc' \in next(pc)
                /\ pc' = "p.assertDataset" => postgres' = 0
                /\ pc # "p.cancelWait" => transitionFunc' = 0
                /\ ("SIGINT" \in did') =
                      (pc' \in {"p.initDb.stop", "restart.stop"})
                /\ ("initdb" \in did') = (pc = "p.initdb")
                /\ ("conf" \in did') = (pc = "p.conf")
                /\ ("spawn" \in did') = (pc' = "restart.start")
                /\ ("snapshot" \in did') = (pc' = "p.snapshot")
                /\ "task" \notin did'
                /\ pgConfig' = pgConfig /\ appliedPgConfig' = appliedPgConfig
          /\ (inP(pc, caller) /\ resp'.at = "done") =>
                /\ pc' = "idle"
                /\ IF resp'.res = "ok"
                   THEN /\ pc = "p.snapshot"
                        /\ pgConfig' = req /\ appliedPgConfig'
                        /\ did' \cap later
                              = (IF req.downstream = Null THEN {} ELSE {"task"})
                        /\ transitionFunc' = 0 <=> req.downstream = Null
                        /\ transitionFunc' # 0 =>
                              tasks'[transitionFunc'].stdby = req.downstream
                   ELSE /\ did' \cap later = {}
                        /\ transitionFunc' = 0
                        /\ pgConfig' = pgConfig
                        /\ appliedPgConfig' = appliedPgConfig
                        /\ pc \in IoWaits => resp'.res \in {pc, "resolveVersionedPaths"}]_vars

\* a primary with a downstream has been set up and its task started
C27_Witness ==
    /\ resp.at = "done" /\ resp.res = "ok"
    /\ did = {"task"}
    /\ pgConfig.role = "primary" /\ pgConfig.downstream # Null
    /\ appliedPgConfig
    /\ transitionFunc # 0

\* C28: _standby stops postgres and asserts the dataset before it writes any
\* configuration; the restore from the upstream is begun exactly when the
\* rewrite of the configuration in place or the restart after it has failed;
\* when both succeed the call is answered with neither restore, rollback nor
\* destroy; and the backup is destroyed only once the restore, the second
\* rewrite and the second restart have all succeeded.
C28_StandbyInOrder ==
  [][LET restarts == {"restart.health", "restart.stop", "restart.start"}
         inPlace(x, c) ==
             x \in {"s.conf1r", "s.conf1p"} \/ (x \in restarts /\ c = "s1")
         inS(x, c) ==
             \/ x \in {"s.cancelWait", "s.stop", "s.assertDataset", "s.conf1r",
                       "s.conf1p", "s.restore", "s.chown", "s.conf2r",
                       "s.conf2p", "s.rollback1", "s.rollback2", "s.destroy"}
             \/ x \in restarts /\ c \in {"s1", "s2"}
         fails(c) == IF c = "s1" THEN {"s.restore"} ELSE {"s.rollback2"}
         next(x, c) ==
             CASE x = "s.cancelWait" -> {"s.stop", "s.assertDataset"}
               [] x = "s.stop" -> {"s.assertDataset"}
               [] x = "s.assertDataset" -> {"s.conf1r", "s.restore"}
               [] x = "s.conf1r" -> {"s.conf1p", "s.restore"}
               [] x = "s.conf1p" -> {"restart.health", "s.restore"}
               [] x = "restart.health" ->
                    {"restart.stop", "restart.start"} \cup fails(c)
               [] x = "restart.stop" -> {"restart.start"} \cup fails(c)
               [] x = "restart.start" ->
                    IF c = "s1" THEN {"s.restore"}
                    ELSE {"s.rollback2", "s.destroy"}
               [] x = "s.restore" -> {"s.chown", "s.rollback1"}
               [] x = "s.chown" -> {"s.conf2r", "s.rollback1"}
               [] x = "s.conf2r" -> {"s.conf2p"}
               [] x = "s.conf2p" -> {"restart.health"}
               [] OTHER -> {}
     IN /\ (~inS(pc, caller) /\ inS(pc', caller')) =>
              /\ pc' \in {"s.cancelWait", "s.stop", "s.assertDataset"}
              /\ did' \cap {"recoveryConf", "conf", "restore"} = {}
        /\ (inS(pc, caller) /\ pc' # pc /\ resp'.at # "done") =>
              /\ pc' \in next(pc, caller)
              /\ pc' = "s.assertDataset" => postgres' = 0
              /\ ("recoveryConf" \in did') = (pc' \in {"s.conf1p", "s.conf2p"})
              /\ ("conf" \in did') = (pc \in {"s.conf1p", "s.conf2p"}
                                        /\ pc' = "restart.health")
              /\ ("restore" \in did') = (pc' = "s.restore")
              /\ ("restore" \in did') =
                    (/\ ~isRestore /\ isRestore'
                     /\ \/ pc = "s.assertDataset"
                        \/ inPlace(pc, caller))
              /\ ("rollback" \in did') = (pc' \in {"s.rollback1", "s.rollback2"})
              /\ ("destroy" \in did') = (pc' = "s.destroy")
              /\ pc' = "s.destroy" =>
                    (pc = "restart.start" /\ caller = "s2" /\ isRestore)
              /\ inPlace(pc', caller') => ~isRestore'
        /\ (inS(pc, caller) /\ resp'.at = "done") =>
              /\ did' \cap {"restore", "rollback", "destroy", "conf",
                            "recoveryConf"} = {}
              /\ ~inPlace(pc, caller) \/ pc = "restart.start"
              /\ (inPlace(pc, caller) /\ pc = "restart.start") =>
                    (resp'.res = "ok" /\ ~isRestore)
              /\ resp'.res = "ok" =>
                    \/ pc = "restart.start" /\ caller = "s1"
                    \/ pc = "s.destroy"]_vars

\* the restore, the second rewrite and the second restart have succeeded
\* and the backup is being destroyed
C28_Witness ==
    pc = "s.destroy" /\ "destroy" \in did /\ isRestore /\ caller = "s2"
        /\ postgres # 0 /\ procs[postgres].alive

\* C29: a status query that fails or brings no row for the standby makes the
\* monitor emit neither 'error' nor 'done': whatever time it had counted, it
\* starts its clock anew and sets the timer of the next poll, one period
\* later, and changes nothing else.
C29_FailedPollIsRetried ==
    /\ (hist.on /\ hist.fail /\ ~hist.cancelled) =>
          /\ tasks[1].st \in {"timer", "query"}
          /\ tasks[1].elapsed = 0
          /\ hist.errs = 0
          /\ hist.dones = 0
          /\ transitionFunc = 1
    /\ (tasks[1].st = "query" /\ ~tasks[1].cancel) =>
          \A row \in {QueryErr, NoRow} : \A d \in Latencies :
              checkReplication(Cur(TRUE), 1, row, d) =
                  [Cur(TRUE) EXCEPT !.tasks[1].elapsed = 0,
                                    !.tasks[1].st = "timer"]

\* a status query has failed after answers that showed the standby's
\* location
C29_Witness ==
    hist.on /\ hist.fail /\ hist.qerr /\ ~hist.cancelled
        /\ tasks[1].st = "timer" /\ tasks[1].loc # NoLoc

\* C30 as claimed: cancel() on a monitor that is waiting for its poll timer or
\* for the answer to a status query gives its consumer an outcome other than
\* that of a standby that has caught up, so that the task does not go on to
\* enable writes; the monitor emits one terminal event in all and sends no
\* status query after it.
C30_CancelledIsDistinct ==
    /\ [][(tasks[1].st \in {"timer", "query"} /\ ~tasks[1].cancel
              /\ tasks'[1].cancel)
            => tasks'[1].st \notin {"conf", "timer", "query"}]_vars
    /\ [](hist.cancelled => tasks[1].st \notin {"timer", "query"})
    /\ []((hist.cancelled /\ tasks[1].cause = "cancel") =>
              hist.dones + hist.errs <= 1)

C32_OneLadderOnStartTimeout ==
    \A p \in 1..MaxProcs :
        /\ Cardinality({i \in 1..Len(stops) : stops[i].ret = Ret("start", p)})
              <= 1
        /\ procs[p].called => ~procs[p].ival

\* C33 as claimed: while the manager is a primary with a downstream (in the
\* topology it has stored, and in the one it is moving to when a transition
\* is in progress) and oneNodeWriteMode is off, a configuration without
\* read-only is put into effect (written and then read by a child that is
\* spawned or signalled) only by the task of the stored downstream, its
\* monitor having seen the standby catch up; neither a cancelled task nor
\* one that has timed out puts one into effect.
C33_ReadOnlyUntilCaughtUp ==
    [][LET byTask == \E t \in 1..MaxTasks :
                         tasks[t].st = "conf" /\ pgConf' # pgConf
           effect == "spawn" \in did' \/ "sighup" \in did' \/ byTask
           withStandby(c) == c.role = "primary" /\ c.downstream # Null
       IN (/\ effect
           /\ pgConf'.ro # "on"
           /\ ~oneNodeWriteMode
           /\ withStandby(pgConfig)
           /\ transitioning => withStandby(req))
          => \E t \in 1..MaxTasks :
                /\ tasks[t].st = "conf"
                /\ tasks[t].cause = "caughtup"
                /\ tasks[t].stdby = pgConfig.downstream]_vars

\* C34 as claimed: _sighup() is never reached without the handle of the
\* child, whose kill() it calls: no exception of it escapes to the event
\* loop.
C34_SighupHasHandle ==
    ~crashed

\* C35 as claimed: an 'error' of a client that has been dropped, or an event
\* of a query whose request has been called back, does no harm: it neither
\* fails nor completes a request, it leaves the current client and its
\* listener in place, and no handler dereferences a null client or fails
\* the assertion of the 'end' listener.
C35_LateEventsHarmless ==
    [][/\ ~pg'.crashed
       /\ pg'.ev.kind \in {"stale", "late"} =>
             /\ pg'.outstanding = pg.outstanding
             /\ pg'.order = pg.order
             /\ pg'.client = pg.client
             /\ pg.client \in pg.listen => pg.client \in pg'.listen]_vars

\* C36 as claimed: the handle never outlives its child.  Only the 'exit'
\* listeners clear the handle, and they do it at the exit: a handle left on
\* a child that has exited is not cleared later, and a _stop() that finds it
\* waits for an exit that has already happened.
C36_HandleClearedAtExit ==
    postgres # 0 => procs[postgres].alive

\* C37 as claimed: at most one child that the manager has spawned is alive,
\* and it is the one the handle refers to.
C37_OneChildAlive ==
    /\ Cardinality({p \in 1..MaxProcs : procs[p].alive}) <= 1
    /\ \A p \in 1..MaxProcs : procs[p].alive => postgres = p

\* C38 as claimed: once stop() has succeeded (the manager is not running and
\* no transition is in progress) no catch-up task submits a status query
\* and none writes the configuration.
C38_NoTaskAfterStop ==
    [][(~running /\ ~transitioning) =>
          \A t \in 1..MaxTasks :
              /\ ~(tasks[t].st = "timer" /\ tasks'[t].st = "query")
              /\ ~(tasks[t].st = "conf" /\ pgConf' # pgConf)]_vars

\* C39 as claimed: once _standby has called the restore of the zfs client,
\* the transition is answered with an error only from the callback of
\* restoreDataset, whatever has failed.
C39_RollbackBeforeEveryError ==
    [][LET restartPcs == {"restart.health", "restart.stop", "restart.start"}
           afterRestore ==
               \/ pc \in {"s.restore", "s.chown", "s.conf2r", "s.conf2p",
                          "s.destroy"} \cup Rollbacks
               \/ caller = "s2" /\ pc \in restartPcs
       IN (afterRestore /\ finishes(resp') /\ resp'.res # "ok")
             => pc \in Rollbacks]_vars

\* C39: once _standby has called the restore of the zfs client, a failure of
\* the restore, of the chown after it and of the restart after it is
\* answered only from the callback of restoreDataset, and restoreDataset is
\* called for nothing else; a failure to write the configuration again
\* (resolveVersionedPaths, recovery.conf, postgresql.conf) and a failure to
\* destroy the backup dataset are answered at once, without restoreDataset.
C39_RollbackOnRestoreOrRestart ==
    [][LET restartPcs == {"restart.health", "restart.stop", "restart.start"}
           afterRestore ==
               \/ pc \in {"s.restore", "s.chown", "s.conf2r", "s.conf2p",
                          "s.destroy"} \cup Rollbacks
               \/ caller = "s2" /\ pc \in restartPcs
       IN /\ (afterRestore /\ finishes(resp') /\ resp'.res # "ok") =>
                \/ pc \in Rollbacks
                \/ pc = "s.chown" /\ resp'.res = "resolveVersionedPaths"
                \/ pc \in {"s.conf2r", "s.conf2p"} /\ resp'.res = pc
                \/ pc = "s.destroy" /\ resp'.res = "s.destroy"
          /\ (pc' \in Rollbacks /\ pc \notin Rollbacks) =>
                \/ pc \in {"s.restore", "s.chown"}
                \/ caller = "s2" /\ pc \in restartPcs]_vars

\* the configuration could not be written after a restore, and the
\* transition has been answered without a rollback
C39_Witness ==
    /\ finishes(resp)
    /\ resp.res \in {"s.conf2r", "s.conf2p"}
    /\ did \cap {"rollback", "rolledBack"} = {}

\* C40 as claimed: while the manager is not running and no transition is in
\* progress, the handle is null and no child the manager has spawned is
\* alive, so that stop() never refuses to stop a live child.
C40_StoppedMeansNoChild ==
    (~running /\ ~transitioning) =>
        /\ postgres = 0
        /\ \A p \in 1..MaxProcs : ~procs[p].alive

====
